---- MODULE Spec2Model ----
(***************************************************************************)
(* Verification model of pdfbatch.xyz: the field-overlay geometry          *)
(* transform of the mapping step, the filename de-duplication of the       *)
(* naming utilities, and the browser-side batch generation driver of the   *)
(* generate step.                                                          *)
(*                                                                         *)
(* Text is modelled as a sequence of one-character strings                 *)
(* (<<"a", ".", "p", "d", "f">> is "a.pdf"); numbers that the code keeps   *)
(* as floating point are modelled as exact fractions [n |-> _, d |-> _].   *)
(***************************************************************************)
EXTENDS Integers, Sequences, FiniteSets, TLC

VARIABLES
    \* ---- MappingStep (overlay geometry) ----
    extracted,          \* the field as extractPDFFields read it from the PDF
    field,              \* the PDFField whose overlay is drawn (x, y, width, height)
    meta,               \* pdfFile.metadata: rotation, cropX, cropY, cropWidth, cropHeight
    previewDimensions,  \* useState({ width: 0, height: 0 })
    position,           \* the rectangle the last render put on the overlay div
    warnings,           \* what MappingStep's render has passed to log.warn
    \* ---- filename de-duplication exercised on its own ----
    impl,               \* which de-duplication code is exercised
    existingFilenames,  \* the Set<string> handed to the de-duplication
    bases,              \* the base filenames handed to it so far, in order
    issued,             \* the filenames it returned, in order
    \* ---- GenerateStep: props ----
    rows,               \* csvData: the CSV rows, column name -> value
    mappings,           \* fieldMappings
    namingTemplate,     \* namingTemplate: template and placeholders
    formFields,         \* the form of the template PDF: field name -> kind
    \* ---- GenerateStep: component state ----
    progress,           \* useState<GenerationProgress>
    downloadUrl,        \* useState<string | null>
    fileCount,          \* useState<number>
    downloads,          \* the archives downloadZipDirectly has handed to the browser
    \* ---- generateZipInBrowser: the running call ----
    pc,                 \* the await the call is suspended at, "none" when no call runs
    chunkStart,         \* the chunk loop's i
    chunkIdx,           \* the index inside the slice
    zip,                \* the JSZip instance: filename -> entry
    usedFilenames,      \* the Set<string> of the call
    pdfDoc,             \* the document of the row in work: field name -> what was set
    uniqueFilename,     \* the filename chosen for the row in work
    rowLog,             \* the rows log.debug has announced as "Processing row"
    fieldWarnings,      \* the <<row, field name>> pairs of log.warn "Error filling field"
    lastTimestamp,      \* the second the last new Date() returned
    \* ---- the text functions exercised on their own ----
    textOp,             \* which function was applied, "none" before the call
    textInput,          \* its argument
    textOutput,         \* what it returned
    \* ---- App and NamingStep ----
    currentStep,        \* App: useState(1), here from the mapping step on
    csvColumns,         \* csvData.columns: the column names; the id of the k-th
                        \* is column-(k-1)
    pdfFields,          \* pdfFields: the field names; the id of the k-th is
                        \* field-(k-1)
    template,           \* NamingStep: useState(initialTemplate); after the step
                        \* is left, the text that was in the input last
    templateAnalysis,   \* NamingStep: useState({placeholders, isValid, errors})
    previews,           \* NamingStep: useState<string[]>([])
    orphans,            \* the calls of generateZipInBrowser whose GenerateStep was
                        \* unmounted while they were suspended, with their locals
    steps,              \* App: useState<WizardStep[]>, completed and active by id
    pdfFile,            \* App: useState<UploadedFile | null>
    csvFile,            \* App: useState<UploadedFile | null>
    showResumeModal,    \* App: useState(false), after the mount effect has run
    incompleteJobData,  \* App: useState<StoredJobData | null>
    modalPdfFile,       \* ResumeJobModal: pdfFile
    modalCsvFile,       \* ResumeJobModal: csvFile
    pdfState,           \* ResumeJobModal: pdfState
    csvState,           \* ResumeJobModal: csvState
    verifying           \* the calls of computeFileChecksum that have not resolved

geomVars == <<extracted, field, meta, previewDimensions, position, warnings>>
uniqVars == <<impl, existingFilenames, bases, issued>>
propVars == <<rows, mappings, namingTemplate, formFields>>
stepVars == <<progress, downloadUrl, fileCount, downloads>>
callVars == <<pc, chunkStart, chunkIdx, zip, usedFilenames, pdfDoc, uniqueFilename, rowLog,
              fieldWarnings, lastTimestamp>>
genVars == <<propVars, stepVars, callVars>>
textVars == <<textOp, textInput, textOutput>>
namingVars == <<currentStep, csvColumns, pdfFields, template, templateAnalysis, previews>>
modalVars == <<modalPdfFile, modalCsvFile, pdfState, csvState, verifying>>
jobVars == <<pdfFile, csvFile, showResumeModal, incompleteJobData, modalVars>>
appVars == <<orphans, steps, jobVars>>
vars == <<geomVars, uniqVars, genVars, textVars, namingVars, appVars>>

(***************************************************************************)
(* Exact arithmetic on fractions                                           *)
(***************************************************************************)
Abs(a) == IF a < 0 THEN -a ELSE a

RECURSIVE GCD(_, _)
GCD(a, b) == IF b = 0 THEN a ELSE GCD(b, a % b)

\* the fraction n/d in lowest terms with a positive denominator
Frac(n, d) ==
    LET g == GCD(Abs(n), Abs(d))
        s == IF d < 0 THEN -1 ELSE 1
    IN  [n |-> (s * n) \div g, d |-> (s * d) \div g]

\* integer k times fraction r
Times(k, r) == Frac(k * r.n, r.d)
FracSub(r, q) == Frac(r.n * q.d - q.n * r.d, r.d * q.d)
FracAbs(r) == [n |-> Abs(r.n), d |-> r.d]
FracGreater(r, q) == r.n * q.d > q.n * r.d
Whole(k) == [n |-> k, d |-> 1]

\* JavaScript's % keeps the sign of the dividend
JsRem(a, m) == IF a >= 0 THEN a % m ELSE -((-a) % m)

(***************************************************************************)
(* Strings: sequences of one-character strings, indexed from 0 as in the   *)
(* code                                                                    *)
(***************************************************************************)
Range(seq) == {seq[i] : i \in 1..Len(seq)}

Min(a, b) == IF a < b THEN a ELSE b
Max(a, b) == IF a > b THEN a ELSE b

\* s.substring(from, to) and s.substring(from): arguments below 0 count as 0,
\* arguments above the length as the length
Substring(s, from, to) ==
    LET a == Min(Max(from, 0), Len(s))
        b == Min(Max(to, 0), Len(s))
    IN  SubSeq(s, Min(a, b) + 1, Max(a, b))

SubstringFrom(s, from) == Substring(s, from, Len(s))

\* s.lastIndexOf(c): the 0-based index of the last c, -1 when there is none
LastIndexOf(s, c) ==
    LET hits == {i \in 1..Len(s) : s[i] = c}
    IN  IF hits = {} THEN -1 ELSE (CHOOSE i \in hits : \A j \in hits : j <= i) - 1

DotPdf == <<".", "p", "d", "f">>

DigitChars == <<"0", "1", "2", "3", "4", "5", "6", "7", "8", "9">>

\* `${counter}` for a counter >= 0
RECURSIVE NumberToString(_)
NumberToString(k) ==
    IF k < 10
    THEN <<DigitChars[k + 1]>>
    ELSE NumberToString(k \div 10) \o <<DigitChars[(k % 10) + 1]>>

(***************************************************************************)
(* Characters.  A character is a string naming it: "a", "1", "_", and      *)
(* "ALEF" (U+05D0), "GERESH" (U+05F3), "GERSHAYIM" (U+05F4), "LRM" (U+200E),*)
(* "RLM" (U+200F), "LRE" (U+202A), "RLE" (U+202B), "PDF" (U+202C),         *)
(* "LRO" (U+202D), "RLO" (U+202E), "TAB" (U+0009), "ACUTE" (U+0301, a      *)
(* combining mark), "E_ACUTE" (U+00E9, e with acute).                      *)
(***************************************************************************)
LowerSeq ==
    <<"a", "b", "c", "d", "e", "f", "g", "h", "i", "j", "k", "l", "m",
      "n", "o", "p", "q", "r", "s", "t", "u", "v", "w", "x", "y", "z">>
UpperSeq ==
    <<"A", "B", "C", "D", "E", "F", "G", "H", "I", "J", "K", "L", "M",
      "N", "O", "P", "Q", "R", "S", "T", "U", "V", "W", "X", "Y", "Z">>
LowerLetters == Range(LowerSeq)
UpperLetters == Range(UpperSeq)
Letters == LowerLetters \cup UpperLetters \cup {"ALEF", "E_ACUTE"}
Digits == Range(DigitChars)
HebrewChars == {"ALEF", "GERESH", "GERSHAYIM"}
EmbeddingControls == {"LRE", "RLE", "PDF", "LRO", "RLO"}
Whitespace == {" ", "TAB"}

\* String.prototype.toLowerCase, one character
LowerChar(c) ==
    IF c \in UpperLetters
    THEN LowerSeq[CHOOSE i \in 1..Len(UpperSeq) : UpperSeq[i] = c]
    ELSE c

ToLowerCase(s) == [i \in 1..Len(s) |-> LowerChar(s[i])]

EndsWith(s, suffix) ==
    /\ Len(s) >= Len(suffix)
    /\ SubSeq(s, Len(s) - Len(suffix) + 1, Len(s)) = suffix

StartsWithAt(s, i, pat) ==
    /\ i + Len(pat) - 1 <= Len(s)
    /\ SubSeq(s, i, i + Len(pat) - 1) = pat

\* s.replace(pat, rep) with a string pattern: the first occurrence only (the
\* replacements the code passes are sanitized and hold no "$")
ReplaceFirst(s, pat, rep) ==
    LET hits == {i \in 1..Len(s) : StartsWithAt(s, i, pat)}
    IN  IF hits = {}
        THEN s
        ELSE LET i == CHOOSE k \in hits : \A j \in hits : k <= j
             IN  SubSeq(s, 1, i - 1) \o rep \o SubSeq(s, i + Len(pat), Len(s))

\* s.replace(/[class]/g, ''): the characters of s outside the class, in order
RemoveChars(s, class) == SelectSeq(s, LAMBDA c : c \notin class)

\* s.normalize('NFC'): e followed by the combining acute composes; nothing
\* else in the alphabet above composes or decomposes
NFC(s) ==
    LET composed == [i \in 1..Len(s) |->
                        IF s[i] = "e" /\ i < Len(s) /\ s[i + 1] = "ACUTE"
                        THEN <<"E_ACUTE">>
                        ELSE IF s[i] = "ACUTE" /\ i > 1 /\ s[i - 1] = "e"
                             THEN <<>>
                             ELSE <<s[i]>>]
        kept == SelectSeq(composed, LAMBDA c : c # <<>>)
    IN  [i \in 1..Len(kept) |-> kept[i][1]]

\* s.replace(/c+/g, c) for the characters of a class: each run becomes `one`
CollapseRuns(s, class, one) ==
    LET marked == [i \in 1..Len(s) |->
                      IF s[i] \notin class
                      THEN <<s[i]>>
                      ELSE IF i < Len(s) /\ s[i + 1] \in class THEN <<>> ELSE <<one>>]
        kept == SelectSeq(marked, LAMBDA c : c # <<>>)
    IN  [i \in 1..Len(kept) |-> kept[i][1]]

\* s.trim()
TrimStart(s) ==
    LET solid == {i \in 1..Len(s) : s[i] \notin Whitespace}
    IN  IF solid = {} THEN <<>> ELSE SubSeq(s, CHOOSE i \in solid : \A j \in solid : i <= j, Len(s))

TrimEnd(s) ==
    LET solid == {i \in 1..Len(s) : s[i] \notin Whitespace}
    IN  IF solid = {} THEN <<>> ELSE SubSeq(s, 1, CHOOSE i \in solid : \A j \in solid : i >= j)

Trim(s) == TrimEnd(TrimStart(s))

(***************************************************************************)
(* sanitizeFilename (namingUtils.ts, and the copy inside                   *)
(* generateZipInBrowser)                                                   *)
(***************************************************************************)
MaxFilenameLength == 120

\* [^\p{L}\p{N} ._\-׳״] does not match these
AllowedInFilename(c) ==
    c \in Letters \cup Digits \cup {" ", ".", "_", "-", "GERESH", "GERSHAYIM"}

\* a version without the final slice
sanitizeFilename_NoTruncate(input) ==
    LET s1 == NFC(input)
        s2 == RemoveChars(s1, {"LRM", "RLM"} \cup EmbeddingControls)
        s3 == [i \in 1..Len(s2) |-> IF AllowedInFilename(s2[i]) THEN s2[i] ELSE "_"]
    IN  Trim(CollapseRuns(CollapseRuns(s3, Whitespace, " "), {"_"}, "_"))

sanitizeFilename(input) ==
    LET s1 == NFC(input)
        s2 == RemoveChars(s1, {"LRM", "RLM"} \cup EmbeddingControls)
        s3 == [i \in 1..Len(s2) |-> IF AllowedInFilename(s2[i]) THEN s2[i] ELSE "_"]
        s4 == Trim(CollapseRuns(CollapseRuns(s3, Whitespace, " "), {"_"}, "_"))
    IN  Substring(s4, 0, MaxFilenameLength)

(***************************************************************************)
(* bidiHebrewForFields (GenerateStep)                                      *)
(***************************************************************************)
\* the length of the match of NUMBER_RE = /\d+(?:[.,]\d+)*/ that starts at
\* position i of s (1-based), 0 when there is none
RECURSIVE DigitsFrom(_, _)
DigitsFrom(s, i) == IF i <= Len(s) /\ s[i] \in Digits THEN 1 + DigitsFrom(s, i + 1) ELSE 0

RECURSIVE GroupsFrom(_, _)
GroupsFrom(s, i) ==
    IF i + 1 <= Len(s) /\ s[i] \in {".", ","} /\ s[i + 1] \in Digits
    THEN LET n == 1 + DigitsFrom(s, i + 1) IN n + GroupsFrom(s, i + n)
    ELSE 0

\* a version for /\d+/: separators end the match
NumberMatchLength_DigitsOnly(s, i) == DigitsFrom(s, i)

NumberMatchLength(s, i) ==
    LET d == DigitsFrom(s, i)
    IN  IF d = 0 THEN 0 ELSE d + GroupsFrom(s, i + d)

\* s.replace(NUMBER_RE, m => LRM + LRE + m + PDF_BIDI + LRM), from position i
RECURSIVE WrapNumbers(_, _)
WrapNumbers(s, i) ==
    IF i > Len(s)
    THEN <<>>
    ELSE LET n == NumberMatchLength(s, i)
         IN  IF n = 0
             THEN <<s[i]>> \o WrapNumbers(s, i + 1)
             ELSE <<"LRM", "LRE">> \o SubSeq(s, i, i + n - 1) \o <<"PDF", "LRM">>
                      \o WrapNumbers(s, i + n)

\* /\p{Script=Hebrew}/u.test(s)
HasHebrew(s) == \E i \in 1..Len(s) : s[i] \in HebrewChars

\* a version that biases every field to right-to-left
bidiHebrewForFields_AlwaysRlm(input) == <<"RLM">> \o WrapNumbers(NFC(input), 1)

bidiHebrewForFields(input) ==
    LET s == NFC(input)
        wrapped == WrapNumbers(s, 1)
    IN  IF HasHebrew(s) THEN <<"RLM">> \o wrapped ELSE wrapped

(***************************************************************************)
(* parseNamingTemplate (namingUtils.ts)                                    *)
(***************************************************************************)
\* the first index >= i at which s holds c, 0 when there is none
FirstIndexFrom(s, i, c) ==
    LET hits == {k \in i..Len(s) : s[k] = c}
    IN  IF hits = {} THEN 0 ELSE CHOOSE k \in hits : \A j \in hits : k <= j

\* the loop over placeholderRegex = /\{([^}]+)\}/g from position i: a match
\* starts at a "{" that is followed by at least one character other than "}"
\* and then by a "}"; the search goes on after the match
RECURSIVE PlaceholdersFrom(_, _)
PlaceholdersFrom(tpl, i) ==
    LET open == FirstIndexFrom(tpl, i, "{")
    IN  IF open = 0
        THEN <<>>
        ELSE LET close == FirstIndexFrom(tpl, open + 1, "}")
             IN  IF close = 0
                 THEN <<>>
                 ELSE IF close = open + 1
                      THEN PlaceholdersFrom(tpl, open + 1)
                      ELSE <<SubSeq(tpl, open + 1, close - 1)>>
                               \o PlaceholdersFrom(tpl, close + 1)

CountOf(s, c) == Cardinality({i \in 1..Len(s) : s[i] = c})

\* a version that keeps one entry for every name
parseNamingTemplate_Collapsed(tpl) ==
    LET placeholders == PlaceholdersFrom(tpl, 1)
        distinct == SelectSeq([k \in 1..Len(placeholders) |->
                                  [name |-> placeholders[k],
                                   first |-> \A j \in 1..(k - 1) : placeholders[j] # placeholders[k]]],
                              LAMBDA e : e.first)
    IN  [placeholders |-> [k \in 1..Len(distinct) |-> distinct[k].name],
         isValid |-> (CountOf(tpl, "{") = CountOf(tpl, "}") /\ Len(placeholders) > 0),
         errors |-> IF CountOf(tpl, "{") # CountOf(tpl, "}")
                    THEN <<"Mismatched braces in template">>
                    ELSE <<>>]

parseNamingTemplate(tpl) ==
    LET placeholders == PlaceholdersFrom(tpl, 1)
        errors == IF CountOf(tpl, "{") # CountOf(tpl, "}")
                  THEN <<"Mismatched braces in template">>
                  ELSE <<>>
    IN  [placeholders |-> placeholders,
         isValid |-> (Len(errors) = 0 /\ Len(placeholders) > 0),
         errors |-> errors]

(***************************************************************************)
(* namingUtils.generateUniqueFilename and the driver's "Handle duplicates" *)
(***************************************************************************)
\* the candidate the loop body of generateUniqueFilename builds
CounterName(baseFilename, counter) ==
    LET extensionIndex == LastIndexOf(baseFilename, ".")
    IN  IF extensionIndex > 0
        THEN Substring(baseFilename, 0, extensionIndex)
                 \o <<"_">> \o NumberToString(counter)
                 \o SubstringFrom(baseFilename, extensionIndex)
        ELSE baseFilename \o <<"_">> \o NumberToString(counter)

\* the while loop, entered with `filename` and `counter`
RECURSIVE UniqueLoop(_, _, _, _)
UniqueLoop(baseFilename, existing, filename, counter) ==
    IF filename \in existing
    THEN UniqueLoop(baseFilename, existing, CounterName(baseFilename, counter), counter + 1)
    ELSE filename

\* a version that returns the base filename without looking at the set
generateUniqueFilename_NoCheck(baseFilename, existing) == baseFilename

\* the filename generateUniqueFilename returns (it also adds it to the set)
generateUniqueFilename(baseFilename, existing) ==
    UniqueLoop(baseFilename, existing, baseFilename, 1)

\* the candidate the loop body in generateZipInBrowser builds: no test of
\* extensionIndex
InlineCounterName(filename, counter) ==
    LET extensionIndex == LastIndexOf(filename, ".")
        name == Substring(filename, 0, extensionIndex)
        ext == SubstringFrom(filename, extensionIndex)
    IN  name \o <<"_">> \o NumberToString(counter) \o ext

RECURSIVE InlineUniqueLoop(_, _, _, _)
InlineUniqueLoop(filename, used, candidate, counter) ==
    IF candidate \in used
    THEN InlineUniqueLoop(filename, used, InlineCounterName(filename, counter), counter + 1)
    ELSE candidate

\* a version that tries the counter 1 once and takes the result as it is
HandleDuplicates_SingleTry(filename, used) ==
    IF filename \in used THEN InlineCounterName(filename, 1) ELSE filename

\* uniqueFilename after "Handle duplicates" in generateZipInBrowser
HandleDuplicates(filename, used) ==
    InlineUniqueLoop(filename, used, filename, 1)

(***************************************************************************)
(* MappingStep: calculateFieldPosition and the render that uses it         *)
(***************************************************************************)
FracDiv(r, q) == Frac(r.n * q.d, r.d * q.n)

ZeroRect == [left |-> Whole(0), top |-> Whole(0), width |-> Whole(0), height |-> Whole(0)]

\* const rotation = (meta.rotation ?? 0) % 360
NormalizedRotation(m) == JsRem(m.rotation, 360)

\* the divisors of the two scale factors: the box sides, swapped when
\* rotation % 180 is not 0
ScaleBoxX(m) == IF JsRem(NormalizedRotation(m), 180) = 0 THEN m.cropWidth ELSE m.cropHeight
ScaleBoxY(m) == IF JsRem(NormalizedRotation(m), 180) = 0 THEN m.cropHeight ELSE m.cropWidth

\* a version of case 0 that forgets the field's height in the origin flip
Case0_TopWithoutHeight(x, y, w, h, boxW, boxH) ==
    [left |-> x, top |-> boxH - y, width |-> w, height |-> h]

\* case 0 of the switch: the rectangle in box units before scaling
Case0(x, y, w, h, boxW, boxH) ==
    [left |-> x, top |-> boxH - y - h, width |-> w, height |-> h]

\* a version of case 90 that flips with boxH instead of boxW
Case90_FlipWithBoxH(x, y, w, h, boxW, boxH) ==
    LET xr == y
        yr == boxW - (x + w)
        wr == h
        hr == w
    IN  [left |-> xr, top |-> boxH - yr - hr, width |-> wr, height |-> hr]

\* case 90: x' = y, y' = boxW - (x + w), w' = h, h' = w
Case90(x, y, w, h, boxW, boxH) ==
    LET xr == y
        yr == boxW - (x + w)
        wr == h
        hr == w
    IN  [left |-> xr, top |-> boxW - yr - hr, width |-> wr, height |-> hr]

\* a version of case 180 that leaves the vertical axis unmirrored
Case180_NoVerticalMirror(x, y, w, h, boxW, boxH) ==
    LET xr == boxW - (x + w)
        yr == y
    IN  [left |-> xr, top |-> boxH - yr - h, width |-> w, height |-> h]

\* case 180: x' = boxW - (x + w), y' = boxH - (y + h)
Case180(x, y, w, h, boxW, boxH) ==
    LET xr == boxW - (x + w)
        yr == boxH - (y + h)
    IN  [left |-> xr, top |-> boxH - yr - h, width |-> w, height |-> h]

\* case 270: x' = boxH - (y + h), y' = x, w' = h, h' = w
Case270(x, y, w, h, boxW, boxH) ==
    LET xr == boxH - (y + h)
        yr == x
        wr == h
        hr == w
    IN  [left |-> xr, top |-> boxW - yr - hr, width |-> wr, height |-> hr]

\* the field rebased into the box, then the switch (rotation): the rectangle
\* in box units before scaling; no case matches any other rotation and
\* leftPx, topPx, wPx, hPx keep their initial 0
RotatedRect(f, m) ==
    LET rotation == NormalizedRotation(m)
        boxW == m.cropWidth
        boxH == m.cropHeight
        x == f.x - m.cropX
        y == f.y - m.cropY
        w == f.width
        h == f.height
    IN  CASE rotation = 0 -> Case0(x, y, w, h, boxW, boxH)
          [] rotation = 90 -> Case90(x, y, w, h, boxW, boxH)
          [] rotation = 180 -> Case180(x, y, w, h, boxW, boxH)
          [] rotation = 270 -> Case270(x, y, w, h, boxW, boxH)
          [] OTHER -> [left |-> 0, top |-> 0, width |-> 0, height |-> 0]

FracMax(r, q) == IF FracGreater(q, r) THEN q ELSE r

\* a version that keeps a hard minimum size of the overlay
calculateFieldPosition_HardMinimum(f, m, pd) ==
    IF pd.width = 0 \/ pd.height = 0
    THEN ZeroRect
    ELSE LET scaleX == Frac(pd.width, ScaleBoxX(m))
             scaleY == Frac(pd.height, ScaleBoxY(m))
             r == RotatedRect(f, m)
         IN  [left   |-> Times(r.left, scaleX),
              top    |-> Times(r.top, scaleY),
              width  |-> FracMax(Times(r.width, scaleX), Whole(20)),
              height |-> FracMax(Times(r.height, scaleY), Whole(20))]

\* a version that returns early only when both preview dimensions are zero
calculateFieldPosition_BothZero(f, m, pd) ==
    IF pd.width = 0 /\ pd.height = 0
    THEN ZeroRect
    ELSE LET scaleX == Frac(pd.width, ScaleBoxX(m))
             scaleY == Frac(pd.height, ScaleBoxY(m))
             r == RotatedRect(f, m)
         IN  [left   |-> Times(r.left, scaleX),
              top    |-> Times(r.top, scaleY),
              width  |-> Times(r.width, scaleX),
              height |-> Times(r.height, scaleY)]

calculateFieldPosition(f, m, pd) ==
    IF pd.width = 0 \/ pd.height = 0
    THEN ZeroRect
    ELSE LET scaleX == Frac(pd.width, ScaleBoxX(m))
             scaleY == Frac(pd.height, ScaleBoxY(m))
             r == RotatedRect(f, m)
         IN  [left   |-> Times(r.left, scaleX),
              top    |-> Times(r.top, scaleY),
              width  |-> Times(r.width, scaleX),
              height |-> Times(r.height, scaleY)]

\* if (Math.abs(imgAR - pageAR) > 0.02) log.warn('[MappingStep] Aspect mismatch', ...)
AspectMismatch(m, pd) ==
    /\ pd.width # 0
    /\ pd.height # 0
    /\ LET imgAR == Frac(pd.width, pd.height)
           pageAR == Frac(ScaleBoxX(m), ScaleBoxY(m))
       IN  FracGreater(FracAbs(FracSub(imgAR, pageAR)), Frac(2, 100))

\* what one render of the overlay leaves in the log
RenderWarnings(m, pd) == IF AspectMismatch(m, pd) THEN {"Aspect mismatch"} ELSE {}

(***************************************************************************)
(* GenerateStep: what generateZipInBrowser does with one row               *)
(***************************************************************************)
ChunkSize == 5

RowNumberName == <<"R", "o", "w", "_", "N", "u", "m", "b", "e", "r">>
TimestampName == <<"T", "i", "m", "e", "s", "t", "a", "m", "p">>

\* new Date().toISOString() at second `sec` of one minute of one day
ToISOString(sec) ==
    <<"2", "0", "2", "4", "-", "0", "1", "-", "0", "1", "T", "0", "0", ":", "0", "0", ":">>
        \o (IF sec < 10 THEN <<"0">> ELSE <<>>) \o NumberToString(sec)
        \o <<".", "0", "0", "0", "Z">>

\* new Date().toISOString().slice(0, 19).replace(/[:.]/g, '-')
TimestampString(sec) ==
    LET t == Substring(ToISOString(sec), 0, 19)
    IN  [k \in 1..Len(t) |-> IF t[k] \in {":", "."} THEN "-" ELSE t[k]]

\* row[name] || ''
CellOrEmpty(row, name) == IF name \in DOMAIN row THEN row[name] ELSE <<>>

\* the value of one placeholder in generateZipInBrowser, before sanitizing
DriverPlaceholderValue(placeholder, row, rowNumber, now) ==
    IF placeholder = RowNumberName
    THEN NumberToString(rowNumber)
    ELSE IF placeholder = TimestampName
         THEN TimestampString(now)
         ELSE CellOrEmpty(row, placeholder)

\* namingTemplate.placeholders.forEach(...) from placeholder k on
RECURSIVE DriverSubstitute(_, _, _, _, _, _)
DriverSubstitute(filename, placeholders, k, row, rowNumber, now) ==
    IF k > Len(placeholders)
    THEN filename
    ELSE LET value == sanitizeFilename(
                 DriverPlaceholderValue(placeholders[k], row, rowNumber, now))
         IN  DriverSubstitute(
                 ReplaceFirst(filename, <<"{">> \o placeholders[k] \o <<"}">>, value),
                 placeholders, k + 1, row, rowNumber, now)

\* a version that compares the ending as it is written
EnsurePdfExtension_CaseSensitive(filename) ==
    IF EndsWith(filename, DotPdf) THEN filename ELSE filename \o DotPdf

\* "Ensure .pdf extension"
EnsurePdfExtension(filename) ==
    IF EndsWith(ToLowerCase(filename), DotPdf) THEN filename ELSE filename \o DotPdf

\* "Generate filename using naming template"; every new Date() of one row is
\* taken to fall into the same second
DriverFilename(nt, row, rowNumber, now) ==
    EnsurePdfExtension(DriverSubstitute(nt.template, nt.placeholders, 1, row, rowNumber, now))

\* a version of the inner catch that lets the error leave the mapping loop
FieldCatch_Rethrow(acc, fieldName) == [acc EXCEPT !.threw = TRUE]

\* catch (fieldError) { log.warn(...) }: the loop goes on with the next mapping
FieldCatch(acc, fieldName) == [acc EXCEPT !.warned = @ \cup {fieldName}]

\* the body of "for (const mapping of mappings)" for one mapping;
\* form.getField throws when the form has no field of that name
FillField(acc, mapping, row, form) ==
    IF mapping.fieldName \notin DOMAIN form
    THEN FieldCatch(acc, mapping.fieldName)
    ELSE LET value == CellOrEmpty(row, mapping.columnName)
             cleanValue == RemoveChars(NFC(value), EmbeddingControls)
         IN  IF value # <<>> /\ form[mapping.fieldName] = "text"
             THEN [acc EXCEPT !.doc =
                      (mapping.fieldName :>
                          [text |-> bidiHebrewForFields(cleanValue),
                           alignment |-> IF HasHebrew(cleanValue) THEN "Right" ELSE "Left"])
                      @@ @]
             ELSE acc

\* "Fill form fields" from mapping k on
RECURSIVE FillFrom(_, _, _, _, _)
FillFrom(acc, ms, k, row, form) ==
    IF k > Len(ms) \/ acc.threw
    THEN acc
    ELSE FillFrom(FillField(acc, ms[k], row, form), ms, k + 1, row, form)

FillFields(ms, row, form) ==
    FillFrom([doc |-> <<>>, warned |-> {}, threw |-> FALSE], ms, 1, row, form)

(***************************************************************************)
(* GenerateStep: messages and progress                                     *)
(***************************************************************************)
Message(text, row, cause) == [text |-> text, row |-> row, cause |-> cause]

Progress(current, status, message) ==
    [current |-> current, total |-> Len(rows), status |-> status, message |-> message]

\* `Failed to process row ${rowNumber}: ${rowError.message}`
RowErrorMessage(rowNumber, cause) == Message("Failed to process row", rowNumber, cause)

\* a version that counts the row that is about to be processed
RowProgress_CountsCurrentRow(globalIdx) ==
    Progress(globalIdx + 1, "processing", Message("Generating PDF", globalIdx + 1, ""))

\* onProgress(globalIdx, `Generating PDF ${rowNumber} of ${rows.length}...`)
RowProgress(globalIdx) ==
    Progress(globalIdx, "processing", Message("Generating PDF", globalIdx + 1, ""))

NoCall ==
    /\ pc = "none"
    /\ chunkStart = 0
    /\ chunkIdx = 0
    /\ zip = <<>>
    /\ usedFilenames = {}
    /\ pdfDoc = <<>>
    /\ uniqueFilename = <<>>

GenIdle ==
    /\ rows = <<>>
    /\ mappings = <<>>
    /\ namingTemplate = [template |-> <<>>, placeholders |-> <<>>]
    /\ formFields = <<>>
    /\ progress = Progress(0, "idle", Message("Ready to generate PDFs", 0, ""))
    /\ downloadUrl = "null"
    /\ fileCount = 0
    /\ downloads = <<>>
    /\ NoCall
    /\ rowLog = <<>>
    /\ fieldWarnings = {}
    /\ lastTimestamp = 0

ExampleField == [x |-> 10, y |-> 20, width |-> 100, height |-> 30]

GeomIdle ==
    /\ extracted = ExampleField
    /\ field = ExampleField
    /\ meta = [rotation |-> 0, cropX |-> 0, cropY |-> 0, cropWidth |-> 595, cropHeight |-> 842]
    /\ previewDimensions = [width |-> 0, height |-> 0]
    /\ position = ZeroRect
    /\ warnings = {}

UniqIdle ==
    /\ impl = "none"
    /\ existingFilenames = {}
    /\ bases = <<>>
    /\ issued = <<>>

TextIdle ==
    /\ textOp = "none"
    /\ textInput = <<>>
    /\ textOutput = <<>>

\* the wizard stands at the generate step; NamingStep is not mounted
NamingIdle ==
    /\ currentStep = 4
    /\ csvColumns = <<>>
    /\ pdfFields = <<>>
    /\ template = <<>>
    /\ templateAnalysis = [placeholders |-> <<>>, isValid |-> FALSE, errors |-> <<>>]
    /\ previews = <<>>

\* a File of the browser: name stands for its name, size and lastModified,
\* content for its bytes
File(name, content) == [name |-> name, content |-> content]

\* useState<UploadedFile | null>(null)
NoFile == File("null", 0)

\* the form, the form saved again with other bytes under the same name, size
\* and modification time, and another form
FormPdf == File("form.pdf", 1)
EditedFormPdf == File("form.pdf", 2)
OtherPdf == File("other.pdf", 3)
PdfFiles == {FormPdf, EditedFormPdf, OtherPdf}

\* the data, the data saved again with other bytes, and other data
DataCsv == File("data.csv", 1)
EditedDataCsv == File("data.csv", 2)
OtherCsv == File("other.csv", 3)
CsvFiles == {DataCsv, EditedDataCsv, OtherCsv}

\* crypto.subtle.digest('SHA-256', buffer): equal for equal bytes only
computeFileChecksum(file) == file.content

\* filesMatch(file, storedFile): name, size and lastModified agree
filesMatch(file, storedFile) == file.name = storedFile.name

\* useState<WizardStep[]>([...]): step 1 is active, nothing is completed
InitialSteps == [id \in 1..4 |-> [completed |-> FALSE, active |-> id = 1]]

\* setSteps(prev => prev.map(step => ...)) applied to st
updateStepStatus(st, stepId, completed, active) ==
    [id \in 1..4 |->
        [completed |-> IF id = stepId THEN completed ELSE st[id].completed,
         active |-> IF id = stepId THEN active ELSE FALSE]]

\* the steps after Next was pressed n - 1 times from the first step
StepsReached(n) == [id \in 1..4 |-> [completed |-> id < n, active |-> id = n]]

\* getIncompleteJob() returned null
NoJob ==
    [lastAction |-> "none", pdfFile |-> NoFile, pdfChecksum |-> 0,
     csvFile |-> NoFile, csvChecksum |-> 0, fieldMappings |-> <<>>,
     namingTemplate |-> [template |-> <<>>, placeholders |-> <<>>]]

\* ResumeJobModal is not shown
ModalIdle ==
    /\ showResumeModal = FALSE
    /\ incompleteJobData = NoJob
    /\ modalPdfFile = NoFile
    /\ modalCsvFile = NoFile
    /\ pdfState = "pending"
    /\ csvState = "pending"
    /\ verifying = {}

\* the wizard has come to the generate step with the form and the data
\* loaded; no call of generateZipInBrowser has lost its component
AppIdle ==
    /\ orphans = <<>>
    /\ steps = StepsReached(4)
    /\ pdfFile = FormPdf
    /\ csvFile = DataCsv
    /\ ModalIdle

(***************************************************************************)
(* Inputs of the geometry transform                                        *)
(***************************************************************************)
MaxField == 2

Fields ==
    {ExampleField} \cup
    [x : 0..MaxField, y : 0..MaxField, width : 0..MaxField, height : 0..MaxField]

Rotations == {0, 90, 180, 270, 360, 450, -90, 45}

\* crop boxes <<cropX, cropY, cropWidth, cropHeight>>: A4 at the origin, and
\* two boxes with an offset
Boxes == {<<0, 0, 595, 842>>, <<1, 2, 200, 100>>, <<5, 7, 120, 160>>}

Metas ==
    {[rotation |-> r, cropX |-> b[1], cropY |-> b[2], cropWidth |-> b[3], cropHeight |-> b[4]] :
        r \in Rotations, b \in Boxes}

\* clientWidth / clientHeight of the displayed image, each size with its double
PreviewSizes ==
    {[width |-> 0, height |-> 0], [width |-> 0, height |-> 150],
     [width |-> 595, height |-> 842], [width |-> 1190, height |-> 1684],
     [width |-> 842, height |-> 595], [width |-> 1684, height |-> 1190],
     [width |-> 300, height |-> 150], [width |-> 600, height |-> 300]}

\* what extractPDFFields may return for a page with the crop box of m: a
\* widget rectangle in absolute page coordinates, near the page origin or
\* near the corner of the crop box
ExtractedFields(m) ==
    Fields \cup {[f EXCEPT !.x = f.x + m.cropX, !.y = f.y + m.cropY] : f \in Fields}

\* processPDFFile: "Normalize field coordinates to CropBox coordinate space"
\* with the crop box generatePDFPreview returned, which is also what it
\* stores as the file's metadata
NormalizeToCropBox(f, previewResult) ==
    [f EXCEPT !.x = f.x - previewResult.cropX, !.y = f.y - previewResult.cropY]

InitGeom ==
    /\ meta \in Metas
    /\ extracted \in ExtractedFields(meta)
    /\ field = NormalizeToCropBox(extracted, meta)
    /\ previewDimensions = [width |-> 0, height |-> 0]
    /\ position = calculateFieldPosition(field, meta, previewDimensions)
    /\ warnings = RenderWarnings(meta, previewDimensions)
    /\ UniqIdle
    /\ GenIdle
    /\ TextIdle
    /\ NamingIdle
    /\ AppIdle

\* update(): setPreviewDimensions({clientWidth, clientHeight}) on image load or
\* window resize, and the render that follows it
update ==
    \E pd \in PreviewSizes :
        /\ previewDimensions' = pd
        /\ position' = calculateFieldPosition(field, meta, pd)
        /\ warnings' = warnings \cup RenderWarnings(meta, pd)
        /\ UNCHANGED <<extracted, field, meta, uniqVars, genVars, textVars, namingVars, appVars>>

NextGeom == update

SpecGeom == InitGeom /\ [][NextGeom]_vars

(***************************************************************************)
(* The de-duplication exercised on sequences of base filenames, starting   *)
(* from an empty set as a batch does                                       *)
(***************************************************************************)
MaxIssued == 4

\* base filenames as the driver makes them: they end in .pdf
PdfBaseNames ==
    {<<"a">> \o DotPdf, <<"a", "_", "1">> \o DotPdf, <<"a", ".", "b">> \o DotPdf, DotPdf}

\* generateUniqueFilename takes any string
BaseNames == PdfBaseNames \cup {<<"a">>, <<"a", "_", "1">>}

InitUnique ==
    /\ impl \in {"generateUniqueFilename", "generateZipInBrowser"}
    /\ existingFilenames = {}
    /\ bases = <<>>
    /\ issued = <<>>
    /\ GeomIdle
    /\ GenIdle
    /\ TextIdle
    /\ NamingIdle
    /\ AppIdle

\* one call generateUniqueFilename(baseFilename, existingFilenames)
CallGenerateUniqueFilename ==
    /\ impl = "generateUniqueFilename"
    /\ Len(issued) < MaxIssued
    /\ \E baseFilename \in BaseNames :
          LET filename == generateUniqueFilename(baseFilename, existingFilenames)
          IN  /\ existingFilenames' = existingFilenames \cup {filename}
              /\ bases' = Append(bases, baseFilename)
              /\ issued' = Append(issued, filename)
    /\ UNCHANGED <<impl, geomVars, genVars, textVars, namingVars, appVars>>

\* one pass through "Handle duplicates" of generateZipInBrowser
RunHandleDuplicates ==
    /\ impl = "generateZipInBrowser"
    /\ Len(issued) < MaxIssued
    /\ \E filename \in PdfBaseNames :
          LET unique == HandleDuplicates(filename, existingFilenames)
          IN  /\ existingFilenames' = existingFilenames \cup {unique}
              /\ bases' = Append(bases, filename)
              /\ issued' = Append(issued, unique)
    /\ UNCHANGED <<impl, geomVars, genVars, textVars, namingVars, appVars>>

NextUnique == CallGenerateUniqueFilename \/ RunHandleDuplicates

SpecUnique == InitUnique /\ [][NextUnique]_vars

(***************************************************************************)
(* GenerateStep: startGeneration and the generateZipInBrowser call, one    *)
(* action per await                                                        *)
(***************************************************************************)
MaxRows == 6
MaxVaried == 3
MaxSecond == 2

ColumnA == <<"A">>
ColumnB == <<"B">>
FieldF1 == <<"F", "1">>
FieldF2 == <<"F", "2">>
FieldF3 == <<"F", "3">>

\* two kinds of CSV row: one with Hebrew text and a number in column B, one
\* with an empty column B and a column A that looks like a numbered duplicate
HebrewRow == (ColumnA :> <<"a">>) @@ (ColumnB :> <<"ALEF", " ", "1", "2">>)

RowKinds == {HebrewRow, (ColumnA :> <<"a", "_", "1">>) @@ (ColumnB :> <<>>)}

\* the row lists of up to MaxRows rows whose first MaxVaried rows are of any
\* kind and whose further rows are all the first kind
RowLists ==
    UNION {{[k \in 1..n |-> IF k <= Len(prefix) THEN prefix[k] ELSE HebrewRow] :
               prefix \in [1..Min(n, MaxVaried) -> RowKinds]} : n \in 0..MaxRows}

\* {A}, d{Row_Number}, {Z} (no such column), {Timestamp}
Templates ==
    {<<"{", "A", "}">>,
     <<"d", "{">> \o RowNumberName \o <<"}">>,
     <<"{", "Z", "}">>,
     <<"{">> \o TimestampName \o <<"}">>}

\* what NamingStep hands to onTemplateComplete for a valid template
NamingTemplates ==
    {[template |-> t, placeholders |-> parseNamingTemplate(t).placeholders] : t \in Templates}

Mapping(fieldName, columnName) ==
    [fieldId |-> fieldName, columnId |-> columnName,
     fieldName |-> fieldName, columnName |-> columnName]

MappingLists ==
    {<<Mapping(FieldF2, ColumnB), Mapping(FieldF1, ColumnA), Mapping(FieldF3, ColumnA)>>,
     <<Mapping(FieldF1, ColumnA), Mapping(FieldF2, ColumnB)>>}

\* the form of the template PDF; the second one has no field F2
Forms ==
    {(FieldF1 :> "text") @@ (FieldF2 :> "text") @@ (FieldF3 :> "checkbox"),
     (FieldF1 :> "text") @@ (FieldF3 :> "checkbox")}

Init ==
    /\ rows \in RowLists
    /\ mappings \in MappingLists
    /\ namingTemplate \in NamingTemplates
    /\ formFields \in Forms
    /\ progress = Progress(0, "idle", Message("Ready to generate PDFs", 0, ""))
    /\ downloadUrl = "null"
    /\ fileCount = 0
    /\ downloads = <<>>
    /\ NoCall
    /\ rowLog = <<>>
    /\ fieldWarnings = {}
    /\ lastTimestamp = 0
    /\ GeomIdle
    /\ UniqIdle
    /\ TextIdle
    /\ NamingIdle
    /\ AppIdle

\* the locals of a call that has ended
DropCall ==
    /\ pc' = "none"
    /\ chunkStart' = 0
    /\ chunkIdx' = 0
    /\ zip' = <<>>
    /\ usedFilenames' = {}
    /\ pdfDoc' = <<>>
    /\ uniqueFilename' = <<>>

\* an error leaves generateZipInBrowser: the catch of startGeneration
Throw(message) ==
    /\ progress' = Progress(0, "error", message)
    /\ DropCall
    /\ UNCHANGED <<propVars, downloadUrl, fileCount, downloads,
                   rowLog, fieldWarnings, lastTimestamp>>

\* the head of the chunk loop with i = start: the first row of the slice is
\* announced and its load awaited, or the loop is left and the archive built
EnterChunk(start) ==
    /\ chunkStart' = start
    /\ chunkIdx' = 0
    /\ IF start < Len(rows)
       THEN /\ progress' = RowProgress(start)
            /\ rowLog' = Append(rowLog, start + 1)
            /\ pc' = "load"
       ELSE /\ progress' = Progress(Len(rows), "processing",
                                    Message("Creating ZIP archive...", 0, ""))
            /\ rowLog' = rowLog
            /\ pc' = "generateAsync"

\* a version that yields after every row
NextInSlice_YieldAfterEveryRow ==
    /\ pdfDoc' = <<>>
    /\ uniqueFilename' = <<>>
    /\ pc' = "yield"
    /\ UNCHANGED <<chunkStart, chunkIdx, progress, rowLog>>

\* the end of the body of "for (const [chunkIdx, row] of slice.entries())":
\* the next row of the slice, or the yield after the slice
NextInSlice ==
    /\ pdfDoc' = <<>>
    /\ uniqueFilename' = <<>>
    /\ IF chunkIdx + 1 < ChunkSize /\ chunkStart + chunkIdx + 1 < Len(rows)
       THEN /\ chunkIdx' = chunkIdx + 1
            /\ chunkStart' = chunkStart
            /\ progress' = RowProgress(chunkStart + chunkIdx + 1)
            /\ rowLog' = Append(rowLog, chunkStart + chunkIdx + 2)
            /\ pc' = "load"
       ELSE /\ pc' = "yield"
            /\ UNCHANGED <<chunkStart, chunkIdx, progress, rowLog>>

\* a version of the row's catch that logs the error and goes on
RowCatch_Swallow(rowNumber, cause) ==
    /\ NextInSlice
    /\ UNCHANGED <<propVars, downloadUrl, fileCount, downloads,
                   zip, usedFilenames, fieldWarnings, lastTimestamp>>

\* catch (rowError) { log.error(...); throw new Error(`Failed to process row ...`) }
RowCatch(rowNumber, cause) == Throw(RowErrorMessage(rowNumber, cause))

\* the archives downloaded and the calls left without a component are
\* MaxArchives at most; no batch is started beyond that
MaxArchives == 2

\* the click on "Generate PDF Archive" or on "Retry Generation", up to the
\* await of the font
startGeneration ==
    /\ currentStep = 4
    /\ ~showResumeModal
    /\ progress.status \in {"idle", "error"}
    /\ pc = "none"
    /\ Len(downloads) + Len(orphans) < MaxArchives
    /\ progress' = Progress(0, "processing",
                            Message("Downloading template and font files...", 0, ""))
    /\ pc' = "fetch"
    /\ rowLog' = <<>>
    /\ fieldWarnings' = {}
    /\ UNCHANGED <<propVars, downloadUrl, fileCount, downloads, chunkStart, chunkIdx,
                   zip, usedFilenames, pdfDoc, uniqueFilename, lastTimestamp>>
    /\ UNCHANGED <<geomVars, uniqVars, textVars, namingVars, appVars>>

\* a version whose set and archive are kept outside the call and go on from
\* what the last call left without a component has put there
FontFetched_SharedSet ==
    /\ pc = "fetch"
    /\ zip' = IF orphans = <<>> THEN <<>> ELSE orphans[Len(orphans)].zip
    /\ usedFilenames' = IF orphans = <<>> THEN {} ELSE orphans[Len(orphans)].usedFilenames
    /\ EnterChunk(0)
    /\ UNCHANGED <<propVars, downloadUrl, fileCount, downloads,
                   pdfDoc, uniqueFilename, fieldWarnings, lastTimestamp>>
    /\ UNCHANGED <<geomVars, uniqVars, textVars, namingVars, appVars>>

\* the font and the template bytes arrive: new JSZip(), new Set(), first row
FontFetched ==
    /\ pc = "fetch"
    /\ zip' = <<>>
    /\ usedFilenames' = {}
    /\ EnterChunk(0)
    /\ UNCHANGED <<propVars, downloadUrl, fileCount, downloads,
                   pdfDoc, uniqueFilename, fieldWarnings, lastTimestamp>>
    /\ UNCHANGED <<geomVars, uniqVars, textVars, namingVars, appVars>>

\* fetch rejects or answers !r.ok
FontFetchFailed ==
    /\ pc = "fetch"
    /\ Throw(Message("Failed to fetch Hebrew font", 0, "fetch"))
    /\ UNCHANGED <<geomVars, uniqVars, textVars, namingVars, appVars>>

\* the seconds a new Date() may show after the last one
Seconds(nt) ==
    IF \E k \in 1..Len(nt.placeholders) : nt.placeholders[k] = TimestampName
    THEN {lastTimestamp, lastTimestamp + 1} \cap 0..MaxSecond
    ELSE {lastTimestamp}

\* PDFDocument.load and embedFont succeed: the fields are filled, the
\* filename is made unique and recorded, and pdfDoc.save() is awaited
Loaded ==
    /\ pc = "load"
    /\ LET rowNumber == chunkStart + chunkIdx + 1
           row == rows[rowNumber]
           filled == FillFields(mappings, row, formFields)
       IN  IF filled.threw
           THEN RowCatch(rowNumber, "getField")
           ELSE \E now \in Seconds(namingTemplate) :
                   LET filename == DriverFilename(namingTemplate, row, rowNumber, now)
                       unique == HandleDuplicates(filename, usedFilenames)
                   IN  /\ pdfDoc' = filled.doc
                       /\ fieldWarnings' =
                              fieldWarnings \cup {<<rowNumber, f>> : f \in filled.warned}
                       /\ lastTimestamp' = now
                       /\ uniqueFilename' = unique
                       /\ usedFilenames' = usedFilenames \cup {unique}
                       /\ pc' = "save"
                       /\ UNCHANGED <<propVars, stepVars, chunkStart, chunkIdx, zip, rowLog>>
    /\ UNCHANGED <<geomVars, uniqVars, textVars, namingVars, appVars>>

\* PDFDocument.load or embedFont rejects
LoadFailed ==
    /\ pc = "load"
    /\ RowCatch(chunkStart + chunkIdx + 1, "PDFDocument.load")
    /\ UNCHANGED <<geomVars, uniqVars, textVars, namingVars, appVars>>

\* pdfDoc.save() resolves: zip.file(uniqueFilename, pdfBytes)
Saved ==
    /\ pc = "save"
    /\ zip' = (uniqueFilename :> [row |-> chunkStart + chunkIdx + 1, doc |-> pdfDoc]) @@ zip
    /\ NextInSlice
    /\ UNCHANGED <<propVars, downloadUrl, fileCount, downloads,
                   usedFilenames, fieldWarnings, lastTimestamp>>
    /\ UNCHANGED <<geomVars, uniqVars, textVars, namingVars, appVars>>

\* pdfDoc.save() rejects
SaveFailed ==
    /\ pc = "save"
    /\ RowCatch(chunkStart + chunkIdx + 1, "pdfDoc.save")
    /\ UNCHANGED <<geomVars, uniqVars, textVars, namingVars, appVars>>

\* the timer of the yield between chunks fires: i += chunkSize
Yielded ==
    /\ pc = "yield"
    /\ EnterChunk(chunkStart + ChunkSize)
    /\ UNCHANGED <<propVars, downloadUrl, fileCount, downloads,
                   zip, usedFilenames, pdfDoc, uniqueFilename, fieldWarnings, lastTimestamp>>
    /\ UNCHANGED <<geomVars, uniqVars, textVars, namingVars, appVars>>

\* zip.generateAsync resolves: startGeneration downloads the archive and
\* reports completion; onGenerationComplete is handleGenerationComplete of
\* App: updateStepStatus(4, true)
ZipGenerated ==
    /\ pc = "generateAsync"
    /\ downloads' = Append(downloads, zip)
    /\ downloadUrl' = "blob"
    /\ fileCount' = Len(rows)
    /\ progress' = Progress(Len(rows), "completed",
                            Message("Generated PDF files successfully!", Len(rows), ""))
    /\ DropCall
    /\ steps' = updateStepStatus(steps, 4, TRUE, FALSE)
    /\ UNCHANGED <<propVars, rowLog, fieldWarnings, lastTimestamp>>
    /\ UNCHANGED <<geomVars, uniqVars, textVars, namingVars, orphans, jobVars>>

\* zip.generateAsync rejects
ZipFailed ==
    /\ pc = "generateAsync"
    /\ Throw(Message("Failed to generate PDFs", 0, "zip.generateAsync"))
    /\ UNCHANGED <<geomVars, uniqVars, textVars, namingVars, appVars>>

Next ==
    \/ startGeneration
    \/ FontFetched
    \/ FontFetchFailed
    \/ Loaded
    \/ LoadFailed
    \/ Saved
    \/ SaveFailed
    \/ Yielded
    \/ ZipGenerated
    \/ ZipFailed

Spec == Init /\ [][Next]_vars

(***************************************************************************)
(* The text functions exercised on their own: bidiHebrewForFields as the   *)
(* mapping loop calls it, sanitizeFilename as the placeholder loop calls   *)
(* it                                                                      *)
(***************************************************************************)
MaxText == 4

TextAlphabet == {"a", "1", ".", ",", "ALEF", "RLM", " ", "/"}

\* `count` copies of s
Repeat(s, count) == [i \in 1..(Len(s) * count) |-> s[((i - 1) % Len(s)) + 1]]

\* cell values of a CSV: "Hello 123 World", "Invoice #2024/05", a Hebrew word
\* followed by "42", "1,234.56", "Acme Inc.", a value with a backslash, a tab
\* and underscores, a decomposed e-acute, and values left over from an Excel
\* export with marks and embeddings
TextExamples ==
    {<<"H", "e", "l", "l", "o", " ", "1", "2", "3", " ", "W", "o", "r", "l", "d">>,
     <<"I", "n", "v", "o", "i", "c", "e", " ", "#", "2", "0", "2", "4", "/", "0", "5">>,
     <<"ALEF", "ALEF", " ", "4", "2">>,
     <<"1", ",", "2", "3", "4", ".", "5", "6">>,
     <<"A", "c", "m", "e", " ", "I", "n", "c", ".">>,
     <<"a", "\\", "b", "TAB", "TAB", "c", "_", "_", "d", "-", "GERESH">>,
     <<"e", "ACUTE", "1">>,
     <<"RLM", "ALEF", "LRE", "7", "PDF", "LRM">>,
     <<"RLE", "a", "RLO", "LRO", "GERSHAYIM">>}

\* values longer than a filename part may be; these are put to the sanitizer
\* only
LongTexts ==
    {Repeat(<<"a", "b">>, 61),
     Repeat(<<"a">>, 119) \o <<" ", "b", "c">>,
     Repeat(<<"/", "a">>, 62)}

CellTexts == TextExamples \cup UNION {[1..n -> TextAlphabet] : n \in 0..MaxText}

Texts == CellTexts \cup LongTexts

InitText ==
    /\ textOp = "none"
    /\ textInput \in Texts
    /\ textOutput = <<>>
    /\ GeomIdle
    /\ UniqIdle
    /\ GenIdle
    /\ NamingIdle
    /\ AppIdle

\* const processedValue = bidiHebrewForFields(cleanValue): the argument is a
\* value that value.normalize('NFC').replace(/[\u202A-\u202E]/g, '') has left
CallBidiHebrewForFields ==
    /\ textOp = "none"
    /\ textInput \in CellTexts
    /\ textInput = RemoveChars(NFC(textInput), EmbeddingControls)
    /\ textOp' = "bidiHebrewForFields"
    /\ textOutput' = bidiHebrewForFields(textInput)
    /\ UNCHANGED <<textInput, geomVars, uniqVars, genVars, namingVars, appVars>>

\* value = sanitizeFilename(value)
CallSanitizeFilename ==
    /\ textOp = "none"
    /\ textOp' = "sanitizeFilename"
    /\ textOutput' = sanitizeFilename(textInput)
    /\ UNCHANGED <<textInput, geomVars, uniqVars, genVars, namingVars, appVars>>

NextText == CallBidiHebrewForFields \/ CallSanitizeFilename

SpecText == InitText /\ [][NextText]_vars

(***************************************************************************)
(* generatePreviewFilenames (namingUtils.ts)                               *)
(***************************************************************************)
SampleName == <<"S", "a", "m", "p", "l", "e", "_">>
UnknownName == <<"U", "n", "k", "n", "o", "w", "n", "_">>

\* the value of one placeholder for the sample row of 0-based index `index`,
\* before sanitizing: columns.find, then fields.find, then the reserved names
PreviewPlaceholderValue(placeholder, columns, fields, row, index, now) ==
    IF placeholder \in columns
    THEN IF CellOrEmpty(row, placeholder) # <<>>
         THEN row[placeholder]
         ELSE SampleName \o NumberToString(index + 1)
    ELSE IF placeholder \in fields
         THEN <<"F", "i", "e", "l", "d", "_">> \o placeholder \o <<"_", "V", "a", "l", "u", "e">>
         ELSE IF placeholder = RowNumberName
              THEN NumberToString(index + 1)
              ELSE IF placeholder = TimestampName
                   THEN TimestampString(now)
                   ELSE UnknownName \o placeholder

\* placeholders.forEach(...) of one sample row, from placeholder k on
RECURSIVE PreviewSubstitute(_, _, _, _, _, _, _, _)
PreviewSubstitute(filename, placeholders, k, columns, fields, row, index, now) ==
    IF k > Len(placeholders)
    THEN filename
    ELSE LET value == sanitizeFilename(
                 PreviewPlaceholderValue(placeholders[k], columns, fields, row, index, now))
         IN  PreviewSubstitute(
                 ReplaceFirst(filename, <<"{">> \o placeholders[k] \o <<"}">>, value),
                 placeholders, k + 1, columns, fields, row, index, now)

\* sampleData.slice(0, 3).forEach((row, index) => ...); every new Date() of
\* one call is taken to fall into the same second
generatePreviewFilenames(tpl, columns, fields, sampleData, now) ==
    LET placeholders == parseNamingTemplate(tpl).placeholders
    IN  [k \in 1..Min(Len(sampleData), 3) |->
            EnsurePdfExtension(
                PreviewSubstitute(tpl, placeholders, 1, columns, fields,
                                  sampleData[k], k - 1, now))]

(***************************************************************************)
(* App (wizard navigation) and NamingStep                                  *)
(***************************************************************************)
MaxSampleRows == 4
MaxTemplateLength == 4

CustomerName == <<"C", "u", "s", "t", "o", "m", "e", "r">>
AcmeInc == <<"A", "c", "m", "e", " ", "I", "n", "c", ".">>

\* initialTemplate = 'document_{Row_Number}'
DefaultTemplate == <<"d", "o", "c", "u", "m", "e", "n", "t", "_", "{">> \o RowNumberName \o <<"}">>

\* the columns of the CSV: a customer column alone, or with a column called
\* Row_Number and a column called like the PDF field F1
ColumnSets == {<<CustomerName>>, <<CustomerName, RowNumberName, FieldF1>>}

\* the rows of a CSV with these columns: the customer is Acme Inc. or empty
NamingRowKinds(columns) ==
    {[c \in columns |->
         IF c = CustomerName THEN customer
         ELSE IF c = RowNumberName THEN <<"x", "7">> ELSE <<"v">>] :
        customer \in {AcmeInc, <<>>}}

\* the CSVs of no row, one row or MaxSampleRows rows in which the customer
\* of every row after the first is Acme Inc.
NamingRowLists(columns) ==
    UNION {{[k \in 1..n |-> IF k = 1 THEN first
                            ELSE CHOOSE r \in NamingRowKinds(columns) : r[CustomerName] = AcmeInc] :
               first \in NamingRowKinds(columns)} : n \in {0, 1, MaxSampleRows}}

\* what the user may type into the template input
TemplateTexts ==
    {DefaultTemplate,
     <<"d", "o", "c", "_", "{">> \o RowNumberName \o <<"}", "_", "{">> \o CustomerName \o <<"}">>,
     <<"{">> \o CustomerName \o <<"}", "_", "{">> \o CustomerName \o <<"}">>,
     <<"{">> \o CustomerName \o <<"}", ".", "P", "D", "F">>,
     <<"{">> \o FieldF1 \o <<"}", ".", "p", "d", "f">>,
     <<"{">> \o FieldF2 \o <<"}", "{">> \o TimestampName \o <<"}">>,
     <<"{", "Z", "e", "d", "}">>,
     <<"a", "/", "{">> \o CustomerName \o <<"}">>,
     <<"{">> \o CustomerName,
     <<"{">> \o CustomerName \o <<"}", "{">>,
     <<"}", "{">> \o CustomerName \o <<"}", "{">>,
     <<"{", "}">>,
     <<"p", "l", "a", "i", "n">>,
     <<>>}

NoAnalysis == [placeholders |-> <<>>, isValid |-> FALSE, errors |-> <<>>]

InitNaming ==
    /\ currentStep = 2
    /\ csvColumns \in ColumnSets
    /\ rows \in NamingRowLists(Range(csvColumns))
    /\ pdfFields = <<FieldF1, FieldF2, FieldF3>>
    /\ mappings \in {m \in MappingLists : Len(m) = 2}
    /\ namingTemplate = [template |-> <<>>, placeholders |-> <<>>]
    /\ template = <<>>
    /\ templateAnalysis = NoAnalysis
    /\ previews = <<>>
    /\ formFields = <<>>
    /\ progress = Progress(0, "idle", Message("Ready to generate PDFs", 0, ""))
    /\ downloadUrl = "null"
    /\ fileCount = 0
    /\ downloads = <<>>
    /\ NoCall
    /\ rowLog = <<>>
    /\ fieldWarnings = {}
    /\ lastTimestamp = 0
    /\ orphans = <<>>
    /\ steps = StepsReached(2)
    /\ pdfFile = FormPdf
    /\ csvFile = DataCsv
    /\ ModalIdle
    /\ GeomIdle
    /\ UniqIdle
    /\ TextIdle

\* what neither the wizard's buttons nor NamingStep change
wizardFrame ==
    <<geomVars, uniqVars, textVars, csvColumns, pdfFields, rows, mappings, formFields,
      downloads, rowLog, fieldWarnings, jobVars>>

\* the state of GenerateStep and of the calls it has made
generateStepVars ==
    <<progress, downloadUrl, fileCount, pc, chunkStart, chunkIdx, zip, usedFilenames,
      pdfDoc, uniqueFilename, orphans>>

\* what no action of NamingStep changes
namingFrame == <<wizardFrame, generateStepVars, steps>>

canProceedToStep(stepNumber) ==
    IF stepNumber = 2
    THEN pdfFile # NoFile /\ csvFile # NoFile /\ Len(pdfFields) > 0
    ELSE IF stepNumber = 3
         THEN Len(mappings) > 0
         ELSE IF stepNumber = 4
              THEN Len(namingTemplate.placeholders) > 0 /\ Len(namingTemplate.template) > 0
              ELSE TRUE

\* the effect of NamingStep that runs after a render with a new template t:
\* the analysis is stored; for a valid template and a CSV with rows the
\* previews are stored and onTemplateComplete hands the template to App
\* (handleTemplateComplete: setNamingTemplate); otherwise both stay as they
\* were, the previews as `shown`
NamingEffectOn(t, shown, nt, columns, fields, sampleData) ==
    LET analysis == parseNamingTemplate(t)
    IN  /\ templateAnalysis' = analysis
        /\ IF analysis.isValid /\ Len(sampleData) > 0
           THEN \E now \in Seconds(analysis) :
                   /\ previews' = generatePreviewFilenames(t, Range(columns), Range(fields),
                                                          sampleData, now)
                   /\ namingTemplate' = [template |-> t, placeholders |-> analysis.placeholders]
                   /\ lastTimestamp' = now
           ELSE /\ previews' = shown
                /\ namingTemplate' = nt
                /\ lastTimestamp' = lastTimestamp

\* the effect under the props that App holds
NamingEffect(t, shown) == NamingEffectOn(t, shown, namingTemplate, csvColumns, pdfFields, rows)

\* NamingStep is mounted: useState(initialTemplate) with
\* initialTemplate={namingTemplate?.template || 'document_{Row_Number}'},
\* no previews, and the effect of the first render
MountNamingStepOn(nt, columns, fields, sampleData) ==
    LET initialTemplate == IF nt.template # <<>> THEN nt.template ELSE DefaultTemplate
    IN  /\ template' = initialTemplate
        /\ NamingEffectOn(initialTemplate, <<>>, nt, columns, fields, sampleData)

\* NamingStep is mounted under the props that App holds
MountNamingStep == MountNamingStepOn(namingTemplate, csvColumns, pdfFields, rows)

\* onChange={(e) => setTemplate(e.target.value)} and the effect
setTemplate ==
    /\ currentStep = 3
    /\ \E t \in TemplateTexts \ {template} :
          /\ template' = t
          /\ NamingEffect(t, previews)
    /\ UNCHANGED <<currentStep, namingFrame>>

\* the button of an available placeholder: setTemplate(prev => prev + `{name}`)
insertPlaceholder ==
    /\ currentStep = 3
    /\ Len(template) < MaxTemplateLength
    /\ \E placeholderName \in Range(csvColumns) \cup {mappings[j].fieldName : j \in 1..Len(mappings)}
                                  \cup {RowNumberName, TimestampName} :
          LET t == template \o <<"{">> \o placeholderName \o <<"}">>
          IN  /\ template' = t
              /\ NamingEffect(t, previews)
    /\ UNCHANGED <<currentStep, namingFrame>>

\* NamingStep leaves the screen and its state (template, templateAnalysis,
\* previews) goes with it; what App holds stays
UnmountNamingStep ==
    /\ template' = <<>>
    /\ templateAnalysis' = NoAnalysis
    /\ previews' = <<>>
    /\ UNCHANGED <<namingTemplate, lastTimestamp>>

\* the locals of the running call of generateZipInBrowser and the props its
\* closure holds
RunningCall ==
    [pc |-> pc, chunkStart |-> chunkStart, chunkIdx |-> chunkIdx, zip |-> zip,
     usedFilenames |-> usedFilenames, pdfDoc |-> pdfDoc, uniqueFilename |-> uniqueFilename,
     rows |-> rows, mappings |-> mappings, namingTemplate |-> namingTemplate,
     formFields |-> formFields]

\* GenerateStep leaves the screen and its state (progress, downloadUrl,
\* fileCount) goes with it; a call of generateZipInBrowser that is suspended
\* at an await stays alive without its component
UnmountGenerateStep ==
    /\ progress' = Progress(0, "idle", Message("Ready to generate PDFs", 0, ""))
    /\ downloadUrl' = "null"
    /\ fileCount' = 0
    /\ orphans' = IF pc = "none" THEN orphans ELSE Append(orphans, RunningCall)
    /\ DropCall

\* the Next button
nextStep ==
    /\ ~showResumeModal
    /\ currentStep < 4
    /\ canProceedToStep(currentStep + 1)
    /\ steps' = updateStepStatus(updateStepStatus(steps, currentStep, TRUE, FALSE),
                                 currentStep + 1, FALSE, TRUE)
    /\ currentStep' = currentStep + 1
    /\ IF currentStep + 1 = 3 THEN MountNamingStep ELSE UnmountNamingStep
    /\ UNCHANGED <<wizardFrame, generateStepVars>>

\* the Previous button
prevStep ==
    /\ ~showResumeModal
    /\ currentStep > 1
    /\ steps' = updateStepStatus(updateStepStatus(steps, currentStep, FALSE, FALSE),
                                 currentStep - 1, FALSE, TRUE)
    /\ currentStep' = currentStep - 1
    /\ IF currentStep - 1 = 3 THEN MountNamingStep ELSE UnmountNamingStep
    /\ IF currentStep = 4 THEN UnmountGenerateStep ELSE UNCHANGED generateStepVars
    /\ UNCHANGED wizardFrame

NextNaming == setTemplate \/ insertPlaceholder \/ nextStep \/ prevStep

SpecNaming == InitNaming /\ [][NextNaming]_vars

(***************************************************************************)
(* Calls of generateZipInBrowser that outlive their GenerateStep           *)
(***************************************************************************)
MaxBatchRows == 2

\* the head of the chunk loop of call c with i = start
CallEnterChunk(c, start) ==
    [c EXCEPT !.chunkStart = start, !.chunkIdx = 0,
              !.pc = IF start < Len(c.rows) THEN "load" ELSE "generateAsync"]

\* the end of the body of the inner loop of call c
CallNextInSlice(c) ==
    IF c.chunkIdx + 1 < ChunkSize /\ c.chunkStart + c.chunkIdx + 1 < Len(c.rows)
    THEN [c EXCEPT !.pdfDoc = <<>>, !.uniqueFilename = <<>>, !.chunkIdx = @ + 1, !.pc = "load"]
    ELSE [c EXCEPT !.pdfDoc = <<>>, !.uniqueFilename = <<>>, !.pc = "yield"]

\* call c after the promise it awaits has resolved at second `now`: its own
\* zip and usedFilenames (const locals of the call) and the props of its
\* closure are all it works on; pc "none" says that the call has ended
CallResumed(c, now) ==
    LET rowNumber == c.chunkStart + c.chunkIdx + 1
    IN  CASE c.pc = "fetch" ->
                CallEnterChunk([c EXCEPT !.zip = <<>>, !.usedFilenames = {}], 0)
          [] c.pc = "load" ->
                LET row == c.rows[rowNumber]
                    filled == FillFields(c.mappings, row, c.formFields)
                    filename == DriverFilename(c.namingTemplate, row, rowNumber, now)
                    unique == HandleDuplicates(filename, c.usedFilenames)
                IN  IF filled.threw
                    THEN [c EXCEPT !.pc = "none"]
                    ELSE [c EXCEPT !.pdfDoc = filled.doc, !.uniqueFilename = unique,
                                   !.usedFilenames = @ \cup {unique}, !.pc = "save"]
          [] c.pc = "save" ->
                CallNextInSlice(
                    [c EXCEPT !.zip = (c.uniqueFilename :> [row |-> rowNumber, doc |-> c.pdfDoc]) @@ @])
          [] c.pc = "yield" -> CallEnterChunk(c, c.chunkStart + ChunkSize)
          [] OTHER -> [c EXCEPT !.pc = "none"]

\* the calls without call i
WithoutCall(calls, i) == [k \in 1..(Len(calls) - 1) |-> IF k < i THEN calls[k] ELSE calls[k + 1]]

\* what a call without a component leaves alone: the state of the mounted
\* GenerateStep (setProgress, setDownloadUrl and setFileCount of an unmounted
\* component do nothing) and the running call
orphanFrame ==
    <<geomVars, uniqVars, textVars, namingVars, jobVars, propVars, progress, downloadUrl,
      fileCount, pc, chunkStart, chunkIdx, zip, usedFilenames, pdfDoc, uniqueFilename,
      rowLog, fieldWarnings>>

\* the promise that a call without a component awaits resolves; after
\* zip.generateAsync its startGeneration downloads the archive and calls
\* onGenerationComplete (handleGenerationComplete: updateStepStatus(4, true))
OrphanResumes ==
    /\ \E i \in 1..Len(orphans) :
          LET c == orphans[i]
          IN  \E now \in (IF c.pc = "load" THEN Seconds(c.namingTemplate) ELSE {lastTimestamp}) :
                 LET after == CallResumed(c, now)
                 IN  /\ lastTimestamp' = now
                     /\ orphans' = IF after.pc = "none"
                                    THEN WithoutCall(orphans, i)
                                    ELSE [orphans EXCEPT ![i] = after]
                     /\ IF c.pc = "generateAsync"
                        THEN /\ downloads' = Append(downloads, c.zip)
                             /\ steps' = updateStepStatus(steps, 4, TRUE, FALSE)
                        ELSE UNCHANGED <<downloads, steps>>
    /\ UNCHANGED orphanFrame

\* the promise rejects: the catch of startGeneration sets the progress of
\* the unmounted component
OrphanFails ==
    /\ \E i \in 1..Len(orphans) :
          /\ orphans[i].pc \in {"fetch", "load", "save", "generateAsync"}
          /\ orphans' = WithoutCall(orphans, i)
    /\ UNCHANGED <<orphanFrame, downloads, steps, lastTimestamp>>

\* the generate step of a job of one or MaxBatchRows equal rows named {A}
InitBatches ==
    /\ rows \in {[k \in 1..n |-> HebrewRow] : n \in {1, MaxBatchRows}}
    /\ mappings = <<Mapping(FieldF1, ColumnA), Mapping(FieldF2, ColumnB)>>
    /\ namingTemplate = [template |-> <<"{", "A", "}">>, placeholders |-> <<ColumnA>>]
    /\ formFields = (FieldF1 :> "text") @@ (FieldF2 :> "text") @@ (FieldF3 :> "checkbox")
    /\ progress = Progress(0, "idle", Message("Ready to generate PDFs", 0, ""))
    /\ downloadUrl = "null"
    /\ fileCount = 0
    /\ downloads = <<>>
    /\ NoCall
    /\ rowLog = <<>>
    /\ fieldWarnings = {}
    /\ lastTimestamp = 0
    /\ currentStep = 4
    /\ csvColumns = <<ColumnA, ColumnB>>
    /\ pdfFields = <<FieldF1, FieldF2, FieldF3>>
    /\ template = <<>>
    /\ templateAnalysis = NoAnalysis
    /\ previews = <<>>
    /\ AppIdle
    /\ GeomIdle
    /\ UniqIdle
    /\ TextIdle

NextBatches == Next \/ nextStep \/ prevStep \/ OrphanResumes \/ OrphanFails

SpecBatches == InitBatches /\ [][NextBatches]_vars

(***************************************************************************)
(* The wizard from the first step on, and ResumeJobModal                   *)
(***************************************************************************)
\* extractPDFFields: the names of the fields of a PDF, in the order of their
\* ids field-0, field-1; the form saved again has the fields of the form
PdfFieldsOf(file) == IF file = OtherPdf THEN <<FieldF2, FieldF3>> ELSE <<FieldF1, FieldF2>>

\* parseCSV: the names of the columns in the order of their ids column-0,
\* column-1
CsvColumnsOf(file) == IF file = OtherCsv THEN <<ColumnB>> ELSE <<ColumnA, ColumnB>>

\* parseCSV: the one data row
CsvRowsOf(file) == IF file = OtherCsv THEN <<(ColumnB :> <<"x">>)>> ELSE <<HebrewRow>>

\* the form that pdf-lib finds in the bytes of the file
FormOf(file) == [f \in Range(PdfFieldsOf(file)) |-> "text"]

\* const newMapping: FieldMapping = {fieldId, columnId, fieldName, columnName}
\* for the field and the column of these ids
NewMapping(fields, columns, fieldId, columnId) ==
    [fieldId |-> fieldId, columnId |-> columnId,
     fieldName |-> fields[fieldId + 1], columnName |-> columns[columnId + 1]]

\* setNamingTemplate(null); the job stores it as {template: '', placeholders: []}
NoTemplate == [template |-> <<>>, placeholders |-> <<>>]

\* what the save effect of an earlier session has stored about the form and
\* the data: after the upload, after a mapping, and after NamingStep has
\* handed the default template to App
StoredJobs ==
    LET job(lastAction, fieldMappings, nt) ==
            [lastAction |-> lastAction,
             pdfFile |-> FormPdf, pdfChecksum |-> computeFileChecksum(FormPdf),
             csvFile |-> DataCsv, csvChecksum |-> computeFileChecksum(DataCsv),
             fieldMappings |-> fieldMappings, namingTemplate |-> nt]
        mapped == <<NewMapping(PdfFieldsOf(FormPdf), CsvColumnsOf(DataCsv), 0, 0)>>
    IN  {job("files_uploaded", <<>>, NoTemplate),
         job("mapping_changed", mapped, NoTemplate),
         job("naming_changed", mapped,
             [template |-> DefaultTemplate,
              placeholders |-> parseNamingTemplate(DefaultTemplate).placeholders])}

\* the switch of handleResumeJob
TargetStep(lastAction) ==
    IF lastAction \in {"step2_next", "naming_changed"} THEN 3
    ELSE IF lastAction \in {"step3_next", "generation_started"} THEN 4
    ELSE 2

\* the four calls of updateStepStatus at the end of handleResumeJob, one
\* after the other
ResumedSteps(st, targetStep) ==
    LET s1 == updateStepStatus(st, 1, TRUE, targetStep = 1)
        s2 == updateStepStatus(s1, 2, targetStep > 2, targetStep = 2)
        s3 == updateStepStatus(s2, 3, targetStep > 3, targetStep = 3)
    IN  updateStepStatus(s3, 4, FALSE, targetStep = 4)

\* the page is opened: nothing is loaded; when getIncompleteJob() finds a
\* stored job the mount effect shows ResumeJobModal
InitWizard ==
    /\ incompleteJobData \in StoredJobs \cup {NoJob}
    /\ showResumeModal = (incompleteJobData # NoJob)
    /\ currentStep = 1
    /\ steps = InitialSteps
    /\ pdfFile = NoFile
    /\ csvFile = NoFile
    /\ pdfFields = <<>>
    /\ csvColumns = <<>>
    /\ rows = <<>>
    /\ mappings = <<>>
    /\ namingTemplate = NoTemplate
    /\ formFields = <<>>
    /\ template = <<>>
    /\ templateAnalysis = NoAnalysis
    /\ previews = <<>>
    /\ progress = Progress(0, "idle", Message("Ready to generate PDFs", 0, ""))
    /\ downloadUrl = "null"
    /\ fileCount = 0
    /\ downloads = <<>>
    /\ NoCall
    /\ rowLog = <<>>
    /\ fieldWarnings = {}
    /\ lastTimestamp = 0
    /\ orphans = <<>>
    /\ modalPdfFile = NoFile
    /\ modalCsvFile = NoFile
    /\ pdfState = "pending"
    /\ csvState = "pending"
    /\ verifying = {}
    /\ GeomIdle
    /\ UniqIdle
    /\ TextIdle

\* UploadStep has processed a PDF and a CSV, both valid: handleFilesUploaded
handleFilesUploaded ==
    /\ ~showResumeModal
    /\ currentStep = 1
    /\ \E uploadedPdfFile \in PdfFiles, uploadedCsvFile \in CsvFiles :
          /\ pdfFile' = uploadedPdfFile
          /\ csvFile' = uploadedCsvFile
          /\ pdfFields' = PdfFieldsOf(uploadedPdfFile)
          /\ csvColumns' = CsvColumnsOf(uploadedCsvFile)
          /\ rows' = CsvRowsOf(uploadedCsvFile)
          /\ formFields' = FormOf(uploadedPdfFile)
    /\ UNCHANGED <<geomVars, uniqVars, textVars, currentStep, template, templateAnalysis,
                   previews, mappings, namingTemplate, stepVars, callVars, orphans, steps,
                   showResumeModal, incompleteJobData, modalVars>>

\* what no action of MappingStep changes
mappingFrame ==
    <<geomVars, uniqVars, textVars, namingVars, rows, namingTemplate, formFields, stepVars,
      callVars, appVars>>

\* mappings.filter(m => m.fieldId !== fieldId)
WithoutField(ms, fieldId) == SelectSeq(ms, LAMBDA m : m.fieldId # fieldId)

\* a version that adds the new mapping to the list as it is
handleFieldDrop_NoFilter ==
    /\ ~showResumeModal
    /\ currentStep = 2
    /\ \E fieldId \in 0..(Len(pdfFields) - 1), columnId \in 0..(Len(csvColumns) - 1) :
          mappings' = Append(mappings, NewMapping(pdfFields, csvColumns, fieldId, columnId))
    /\ UNCHANGED mappingFrame

\* a column is dropped on a field of MappingStep: the mapping of the field
\* is removed, the new one appended, and the list handed to App
\* (handleMappingComplete: setFieldMappings)
handleFieldDrop ==
    /\ ~showResumeModal
    /\ currentStep = 2
    /\ \E fieldId \in 0..(Len(pdfFields) - 1), columnId \in 0..(Len(csvColumns) - 1) :
          mappings' = Append(WithoutField(mappings, fieldId),
                             NewMapping(pdfFields, csvColumns, fieldId, columnId))
    /\ UNCHANGED mappingFrame

\* the remove button of a mapped field
removeMapping ==
    /\ ~showResumeModal
    /\ currentStep = 2
    /\ \E fieldId \in {mappings[j].fieldId : j \in 1..Len(mappings)} :
          mappings' = WithoutField(mappings, fieldId)
    /\ UNCHANGED mappingFrame

\* what no action inside ResumeJobModal changes
modalFrame ==
    <<geomVars, uniqVars, genVars, textVars, namingVars, orphans, steps, pdfFile, csvFile,
      showResumeModal, incompleteJobData>>

\* a file is chosen or dropped in ResumeJobModal: setPdfFile or setCsvFile,
\* then handleFileUpload up to its await: 'mismatch' at once when name, size
\* or lastModified differ, else 'processing' and the checksum is computed
handleFileUpload ==
    /\ showResumeModal
    /\ \E type \in {"pdf", "csv"} :
          \E file \in (IF type = "pdf" THEN PdfFiles ELSE CsvFiles) :
             LET storedFile == IF type = "pdf" THEN incompleteJobData.pdfFile
                               ELSE incompleteJobData.csvFile
                 state == IF filesMatch(file, storedFile) THEN "processing" ELSE "mismatch"
             IN  /\ verifying' = IF filesMatch(file, storedFile)
                                 THEN verifying \cup {[type |-> type, file |-> file]}
                                 ELSE verifying
                 /\ IF type = "pdf"
                    THEN /\ modalPdfFile' = file
                         /\ pdfState' = state
                         /\ UNCHANGED <<modalCsvFile, csvState>>
                    ELSE /\ modalCsvFile' = file
                         /\ csvState' = state
                         /\ UNCHANGED <<modalPdfFile, pdfState>>
    /\ UNCHANGED modalFrame

\* a version that drops the result of a call whose file is no longer the
\* selected one
ChecksumResolved_CurrentFileOnly ==
    /\ showResumeModal
    /\ \E call \in verifying :
          LET stored == IF call.type = "pdf" THEN incompleteJobData.pdfChecksum
                        ELSE incompleteJobData.csvChecksum
              selected == IF call.type = "pdf" THEN modalPdfFile ELSE modalCsvFile
              state == IF computeFileChecksum(call.file) = stored THEN "verified" ELSE "mismatch"
          IN  /\ verifying' = verifying \ {call}
              /\ IF call.file # selected
                 THEN UNCHANGED <<pdfState, csvState>>
                 ELSE IF call.type = "pdf"
                      THEN pdfState' = state /\ csvState' = csvState
                      ELSE csvState' = state /\ pdfState' = pdfState
    /\ UNCHANGED <<modalFrame, modalPdfFile, modalCsvFile>>

\* computeFileChecksum resolves in a call of handleFileUpload: 'verified'
\* when the checksum of the file of that call is the stored one, else
\* 'mismatch'
ChecksumResolved ==
    /\ showResumeModal
    /\ \E call \in verifying :
          LET stored == IF call.type = "pdf" THEN incompleteJobData.pdfChecksum
                        ELSE incompleteJobData.csvChecksum
              state == IF computeFileChecksum(call.file) = stored THEN "verified" ELSE "mismatch"
          IN  /\ verifying' = verifying \ {call}
              /\ IF call.type = "pdf"
                 THEN pdfState' = state /\ csvState' = csvState
                 ELSE csvState' = state /\ pdfState' = pdfState
    /\ UNCHANGED <<modalFrame, modalPdfFile, modalCsvFile>>

\* computeFileChecksum rejects: the catch of handleFileUpload
ChecksumRejected ==
    /\ showResumeModal
    /\ \E call \in verifying :
          /\ verifying' = verifying \ {call}
          /\ IF call.type = "pdf"
             THEN pdfState' = "error" /\ csvState' = csvState
             ELSE csvState' = "error" /\ pdfState' = pdfState
    /\ UNCHANGED <<modalFrame, modalPdfFile, modalCsvFile>>

\* ResumeJobModal leaves the screen and its state goes with it; a checksum
\* that resolves later sets the state of an unmounted component
UnmountResumeJobModal ==
    /\ showResumeModal' = FALSE
    /\ modalPdfFile' = NoFile
    /\ modalCsvFile' = NoFile
    /\ pdfState' = "pending"
    /\ csvState' = "pending"
    /\ verifying' = {}

\* const canResume = pdfState === 'verified' && csvState === 'verified' && !processing
canResume == pdfState = "verified" /\ csvState = "verified"

\* handleResumeJob for the stored job and the files the modal has processed
handleResumeJob(job, resumedPdf, resumedCsv) ==
    LET targetStep == TargetStep(job.lastAction)
    IN  /\ pdfFile' = resumedPdf
        /\ csvFile' = resumedCsv
        /\ pdfFields' = PdfFieldsOf(resumedPdf)
        /\ csvColumns' = CsvColumnsOf(resumedCsv)
        /\ rows' = CsvRowsOf(resumedCsv)
        /\ formFields' = FormOf(resumedPdf)
        /\ mappings' = job.fieldMappings
        /\ currentStep' = targetStep
        /\ steps' = ResumedSteps(steps, targetStep)
        /\ incompleteJobData' = NoJob
        /\ IF targetStep = 3
           THEN MountNamingStepOn(job.namingTemplate, CsvColumnsOf(resumedCsv),
                                  PdfFieldsOf(resumedPdf), CsvRowsOf(resumedCsv))
           ELSE /\ namingTemplate' = job.namingTemplate
                /\ template' = <<>>
                /\ templateAnalysis' = NoAnalysis
                /\ previews' = <<>>
                /\ lastTimestamp' = lastTimestamp

\* the Resume Job button, with the await of processUploadedFiles for the
\* selected files and, both being valid, onResume
handleResumeWithFiles ==
    /\ showResumeModal
    /\ modalPdfFile # NoFile
    /\ modalCsvFile # NoFile
    /\ canResume
    /\ handleResumeJob(incompleteJobData, modalPdfFile, modalCsvFile)
    /\ UnmountResumeJobModal
    /\ UNCHANGED <<geomVars, uniqVars, textVars, stepVars, pc, chunkStart, chunkIdx, zip,
                   usedFilenames, pdfDoc, uniqueFilename, rowLog, fieldWarnings, orphans>>

\* the Start New Job button
handleStartNewJob ==
    /\ showResumeModal
    /\ incompleteJobData' = NoJob
    /\ UnmountResumeJobModal
    /\ pdfFile' = NoFile
    /\ csvFile' = NoFile
    /\ pdfFields' = <<>>
    /\ csvColumns' = <<>>
    /\ rows' = <<>>
    /\ mappings' = <<>>
    /\ namingTemplate' = NoTemplate
    /\ currentStep' = 1
    /\ steps' = InitialSteps
    /\ UNCHANGED <<geomVars, uniqVars, textVars, template, templateAnalysis, previews,
                   formFields, stepVars, callVars, orphans>>

\* the X of the modal: onClose={() => setShowResumeModal(false)}
onClose ==
    /\ showResumeModal
    /\ UnmountResumeJobModal
    /\ UNCHANGED <<geomVars, uniqVars, genVars, textVars, namingVars, orphans, steps,
                   pdfFile, csvFile, incompleteJobData>>

NextWizard ==
    \/ handleFilesUploaded
    \/ handleFieldDrop
    \/ removeMapping
    \/ nextStep
    \/ prevStep
    \/ handleFileUpload
    \/ ChecksumResolved
    \/ ChecksumRejected
    \/ handleResumeWithFiles
    \/ handleStartNewJob
    \/ onClose

SpecWizard == InitWizard /\ [][NextWizard]_vars

(***************************************************************************)
(* Properties of the geometry transform                                    *)
(***************************************************************************)
SupportedRotations == {0, 90, 180, 270}

PreviewReady == previewDimensions.width # 0 /\ previewDimensions.height # 0

FracAdd(r, q) == Frac(r.n * q.d + q.n * r.d, r.d * q.d)

WholeRect(x, y, w, h) == [x |-> Whole(x), y |-> Whole(y), width |-> Whole(w), height |-> Whole(h)]

InsideBox(f, m) ==
    /\ f.x >= m.cropX
    /\ f.y >= m.cropY
    /\ f.x + f.width <= m.cropX + m.cropWidth
    /\ f.y + f.height <= m.cropY + m.cropHeight

A4Box(m) == m.cropX = 0 /\ m.cropY = 0 /\ m.cropWidth = 595 /\ m.cropHeight = 842

\* the rotation-0 rectangle as section 4.1 states it
Rotation0Rect(f, m, pd) ==
    LET scaleX == Frac(pd.width, m.cropWidth)
        scaleY == Frac(pd.height, m.cropHeight)
    IN  [left   |-> Times(f.x - m.cropX, scaleX),
         top    |-> Times(m.cropHeight - (f.y - m.cropY) - f.height, scaleY),
         width  |-> Times(f.width, scaleX),
         height |-> Times(f.height, scaleY)]

\* C5: for rotation 0 the overlay is left = (x - boxX) * scaleX,
\* top = (boxHeight - (y - boxY) - height) * scaleY, width = width * scaleX,
\* height = height * scaleY with scaleX = previewWidth / boxWidth and
\* scaleY = previewHeight / boxHeight; the field (10, 20, 100, 30) on the box
\* (0, 0, 595, 842) rendered at 1190x1684 gives {20, 1584, 200, 60}.
C5_Rotation0Formula ==
    /\ (meta.rotation = 0 /\ PreviewReady) =>
          position = Rotation0Rect(field, meta, previewDimensions)
    /\ (/\ meta.rotation = 0
        /\ A4Box(meta)
        /\ field = ExampleField
        /\ previewDimensions = [width |-> 1190, height |-> 1684]) =>
          position = [left |-> Whole(20), top |-> Whole(1584),
                      width |-> Whole(200), height |-> Whole(60)]

C5_Witness ==
    /\ meta.rotation = 0
    /\ A4Box(meta)
    /\ field = ExampleField
    /\ previewDimensions = [width |-> 1190, height |-> 1684]
    /\ position.top = Whole(1584)

\* the screen rectangle of a page shown rotated by 90 degrees, taken back to
\* PDF space: undo the scale, undo the top-left/bottom-left flip (the rotated
\* page is boxHeight wide and boxWidth tall), rotate 90 degrees
\* counter-clockwise, add the box offset
RotateBack90(rect, m, pd) ==
    LET scaleX == Frac(pd.width, m.cropHeight)
        scaleY == Frac(pd.height, m.cropWidth)
        l == FracDiv(rect.left, scaleX)
        t == FracDiv(rect.top, scaleY)
        wd == FracDiv(rect.width, scaleX)
        ht == FracDiv(rect.height, scaleY)
        \* bottom-left origin in the rotated page
        xr == l
        yr == FracSub(FracSub(Whole(m.cropWidth), t), ht)
        \* (a, b) of the rotated page is (boxWidth - b, a) of the unrotated one
        x == FracSub(Whole(m.cropWidth), FracAdd(yr, ht))
        y == xr
    IN  [x |-> FracAdd(x, Whole(m.cropX)), y |-> FracAdd(y, Whole(m.cropY)),
         width |-> ht, height |-> wd]

\* C6: for rotation 90, rotating the returned screen rectangle back 90 degrees
\* counter-clockwise (undoing the scale and the origin flip) reproduces the
\* original field rectangle (x, y, width, height); checked for every field of
\* the model, inside the page box or not.
C6_Rotation90RoundTrip ==
    (meta.rotation = 90 /\ PreviewReady) =>
        RotateBack90(position, meta, previewDimensions)
            = WholeRect(field.x, field.y, field.width, field.height)

C6_Witness ==
    /\ meta.rotation = 90
    /\ PreviewReady
    /\ meta.cropX # 0
    /\ field.width # field.height
    /\ field.width > 0
    /\ field.height > 0
    /\ InsideBox(field, meta)
    /\ position.width # Whole(0)

\* the rotation-180 and rotation-270 rectangles as section 4.1 states them, on
\* the field rebased into the box
Rotation180Rect(f, m, pd) ==
    LET x == f.x - m.cropX
        y == f.y - m.cropY
        scaleX == Frac(pd.width, m.cropWidth)
        scaleY == Frac(pd.height, m.cropHeight)
        rotated_x == m.cropWidth - (x + f.width)
        rotated_y == m.cropHeight - (y + f.height)
    IN  [left   |-> Times(rotated_x, scaleX),
         top    |-> Times(m.cropHeight - rotated_y - f.height, scaleY),
         width  |-> Times(f.width, scaleX),
         height |-> Times(f.height, scaleY)]

Rotation270Rect(f, m, pd) ==
    LET x == f.x - m.cropX
        y == f.y - m.cropY
        scaleX == Frac(pd.width, m.cropHeight)
        scaleY == Frac(pd.height, m.cropWidth)
        rotated_x == m.cropHeight - (y + f.height)
        rotated_y == x
    IN  [left   |-> Times(rotated_x, scaleX),
         top    |-> Times(m.cropWidth - rotated_y - f.width, scaleY),
         width  |-> Times(f.height, scaleX),
         height |-> Times(f.width, scaleY)]

\* C7: for rotation 180 the result comes from rotated_x = boxWidth - (x + width),
\* rotated_y = boxHeight - (y + height), flipped with boxHeight, width and
\* height unswapped; for rotation 270 from rotated_x = boxHeight - (y + height),
\* rotated_y = x, flipped with boxWidth, width and height swapped; the scale
\* factors divide by the box sides, swapped only for 90/270.
C7_Rotation180And270Formula ==
    /\ (meta.rotation = 180 /\ PreviewReady) =>
          position = Rotation180Rect(field, meta, previewDimensions)
    /\ (meta.rotation = 270 /\ PreviewReady) =>
          position = Rotation270Rect(field, meta, previewDimensions)

C7_Witness ==
    /\ meta.rotation = 180
    /\ PreviewReady
    /\ field = ExampleField
    /\ meta.cropY # 0
    /\ position.top # Whole(0)

Twice(pd) == [width |-> 2 * pd.width, height |-> 2 * pd.height]

\* C8: for every rotation in {0, 90, 180, 270}, every field and every page box,
\* doubling both preview pixel dimensions doubles each of left, top, width and
\* height of the returned rectangle exactly.
C8_ScaleLinear ==
    (meta.rotation \in SupportedRotations) =>
        calculateFieldPosition(field, meta, Twice(previewDimensions))
            = [left   |-> Times(2, position.left),
               top    |-> Times(2, position.top),
               width  |-> Times(2, position.width),
               height |-> Times(2, position.height)]

C8_Witness ==
    /\ meta.rotation = 270
    /\ previewDimensions = [width |-> 300, height |-> 150]
    /\ field.width = 1
    /\ field.height = 2
    /\ position.width # Whole(0)

\* C9: if the preview pixel width or height is zero, the transform returns
\* {left 0, top 0, width 0, height 0} for every field, rotation and page box.
C9_ZeroPreviewGivesZeroRect ==
    (previewDimensions.width = 0 \/ previewDimensions.height = 0) =>
        position = ZeroRect

C9_Witness ==
    /\ previewDimensions = [width |-> 0, height |-> 150]
    /\ field = ExampleField
    /\ meta.rotation = 0
    /\ position = ZeroRect

PairwiseDistinct(seq) == \A i, j \in 1..Len(seq) : i # j => seq[i] # seq[j]

\* name.pdf, name_1.pdf, name_2.pdf, ...: the j-th filename for the base
\* name.pdf
NthOfSameBase(base, j) ==
    IF j = 1
    THEN base
    ELSE SubSeq(base, 1, Len(base) - 4) \o <<"_">> \o NumberToString(j - 1) \o DotPdf

APdfNames ==
    <<<<"a", ".", "p", "d", "f">>,
      <<"a", "_", "1", ".", "p", "d", "f">>,
      <<"a", "_", "2", ".", "p", "d", "f">>,
      <<"a", "_", "3", ".", "p", "d", "f">>,
      <<"a", "_", "4", ".", "p", "d", "f">>,
      <<"a", "_", "5", ".", "p", "d", "f">>>>

\* C1: starting from an empty set, every issued filename was absent from the
\* set and is recorded in it, so the issued filenames are pairwise distinct and
\* the set has as many entries as filenames were issued; k rows with the same
\* base name.pdf receive name.pdf, name_1.pdf, ..., name_(k-1).pdf in order
\* (3 rows of a.pdf: exactly a.pdf, a_1.pdf, a_2.pdf and a set of 3 entries).
C1_IssuedFilenamesUnique ==
    /\ Len(issued) = Len(bases)
    /\ PairwiseDistinct(issued)
    /\ existingFilenames = Range(issued)
    /\ Cardinality(existingFilenames) = Len(issued)
    /\ \A base \in Range(bases) :
          (Len(base) > 4 /\ \A i \in 1..Len(bases) : bases[i] = base) =>
              \A j \in 1..Len(issued) : issued[j] = NthOfSameBase(base, j)
    /\ (Len(bases) <= 6 /\ \A i \in 1..Len(bases) : bases[i] = APdfNames[1]) =>
          issued = SubSeq(APdfNames, 1, Len(bases))

C1_Witness ==
    /\ impl = "generateUniqueFilename"
    /\ bases = <<APdfNames[1], APdfNames[1], APdfNames[1]>>
    /\ issued = <<APdfNames[1], APdfNames[2], APdfNames[3]>>
    /\ Cardinality(existingFilenames) = 3

(***************************************************************************)
(* Properties of the generation batch                                      *)
(***************************************************************************)
\* the rows whose documents an archive holds
RowsIn(archive) == {archive[f].row : f \in DOMAIN archive}

\* the base filenames the rows of the batch resolve to within one second
BaseFilenameOf(k) == DriverFilename(namingTemplate, rows[k], k, 0)

\* C2: when a batch over n rows completes, exactly one archive has been
\* built and it has exactly n entries, one for every row 1..n, so that no
\* entry has been overwritten and no row is without one; fileCount is n
C2_ArchiveHasOneEntryPerRow ==
    progress.status = "completed" =>
        /\ Len(downloads) = 1
        /\ Cardinality(DOMAIN downloads[1]) = Len(rows)
        /\ RowsIn(downloads[1]) = 1..Len(rows)
        /\ fileCount = Len(rows)

\* a completed batch of more than one chunk in which three rows resolve to
\* the same base filename
C2_Witness ==
    /\ progress.status = "completed"
    /\ Len(rows) > ChunkSize
    /\ \E a, b, c \in 1..Len(rows) :
          /\ a < b /\ b < c
          /\ BaseFilenameOf(a) = BaseFilenameOf(b)
          /\ BaseFilenameOf(b) = BaseFilenameOf(c)
    /\ Cardinality(DOMAIN downloads[1]) = Len(rows)

\* the step in which the load or the serialization of the current row, or
\* the fetch of the font, has failed: the awaited result did not arrive
FatalStep ==
    \/ pc = "fetch" /\ pc' \notin {"load", "generateAsync"}
    \/ pc = "load" /\ pc' # "save"
    \/ pc = "save" /\ uniqueFilename \notin DOMAIN zip'

DescriptiveMessage(k) ==
    IF k = 0
    THEN progress.message.text = "Failed to fetch Hebrew font"
    ELSE /\ progress.message.text = "Failed to process row"
         /\ progress.message.row = k
         /\ progress.message.cause \in {"PDFDocument.load", "pdfDoc.save"}

\* C3: a step in which the font fetch fails, or the load or the save of row
\* k fails, ends the call in the 'error' state with nothing of the archive
\* kept; in the 'error' state no call is running, no archive has been
\* downloaded or reported, the message names the failure, the rows announced
\* are exactly 1..k, and the only step possible is the retry, which starts
\* the whole batch again
C3_FatalErrorAbortsBatch ==
    /\ [][FatalStep =>
             /\ progress'.status = "error"
             /\ pc' = "none"
             /\ zip' = <<>>
             /\ rowLog' = rowLog
             /\ downloads' = <<>>]_vars
    /\ [](progress.status = "error" /\ progress.message.cause # "zip.generateAsync" =>
             /\ pc = "none"
             /\ zip = <<>>
             /\ downloads = <<>>
             /\ downloadUrl = "null"
             /\ fileCount = 0
             /\ rowLog = [k \in 1..Len(rowLog) |-> k]
             /\ DescriptiveMessage(Len(rowLog))
             /\ ENABLED startGeneration)
    /\ [][progress.status = "error" => pc' = "fetch" /\ rowLog' = <<>>]_vars

\* the save of a row before the last one has failed after earlier rows had
\* been archived
C3_Witness ==
    /\ progress.status = "error"
    /\ progress.message.text = "Failed to process row"
    /\ progress.message.cause = "pdfDoc.save"
    /\ progress.message.row > 1
    /\ progress.message.row < Len(rows)
    /\ rowLog = [k \in 1..progress.message.row |-> k]

\* what setText and setAlignment leave in a field for a cell value
FilledWith(value) ==
    LET cleanValue == RemoveChars(NFC(value), EmbeddingControls)
    IN  [text |-> bidiHebrewForFields(cleanValue),
         alignment |-> IF HasHebrew(cleanValue) THEN "Right" ELSE "Left"]

\* mapping j applies to the row: the form has the text field and the cell is
\* not empty
Applies(j, row) ==
    /\ mappings[j].fieldName \in DOMAIN formFields
    /\ formFields[mappings[j].fieldName] = "text"
    /\ CellOrEmpty(row, mappings[j].columnName) # <<>>

\* the mappings whose field the form does not have
MissingFieldMappings == {j \in 1..Len(mappings) : mappings[j].fieldName \notin DOMAIN formFields}

\* the document of a row has every mapping that applies, and nothing from a
\* mapping whose field is missing
DocumentComplete(entry) ==
    \A j \in 1..Len(mappings) :
        /\ Applies(j, rows[entry.row]) =>
              /\ mappings[j].fieldName \in DOMAIN entry.doc
              /\ entry.doc[mappings[j].fieldName] =
                     FilledWith(rows[entry.row][mappings[j].columnName])
        /\ j \in MissingFieldMappings =>
              /\ mappings[j].fieldName \notin DOMAIN entry.doc
              /\ <<entry.row, mappings[j].fieldName>> \in fieldWarnings

\* C4: a mapping whose field the template does not have is skipped with a
\* warning and nothing else: every row reached still gets its document saved
\* (the call goes from the load to the save of that row), every archived
\* document has all the other mappings applied, and the batch never ends in
\* an error because of a field
C4_FieldErrorSkipsOnlyThatMapping ==
    /\ [](/\ \A f \in DOMAIN zip : DocumentComplete(zip[f])
          /\ \A a \in 1..Len(downloads) :
                \A f \in DOMAIN downloads[a] : DocumentComplete(downloads[a][f])
          /\ progress.status = "error" => progress.message.cause # "getField")
    /\ [][pc = "load" /\ pc' = "none" => progress'.message.cause = "PDFDocument.load"]_vars

\* a completed batch whose template lacks a mapped field, with a mapping
\* that comes after the missing one applied in the first row's document
C4_Witness ==
    /\ progress.status = "completed"
    /\ Len(rows) >= 2
    /\ \E f \in DOMAIN downloads[1] :
          /\ downloads[1][f].row = 1
          /\ \E j \in MissingFieldMappings :
                /\ <<1, mappings[j].fieldName>> \in fieldWarnings
                /\ \E later \in (j + 1)..Len(mappings) :
                      /\ Applies(later, rows[1])
                      /\ mappings[later].fieldName \in DOMAIN downloads[1][f].doc

(***************************************************************************)
(* Properties of the text functions                                        *)
(***************************************************************************)
BidiApplied == textOp = "bidiHebrewForFields"

SanitizeApplied == textOp = "sanitizeFilename"

\* s without the controls the digit wrapping uses
WithoutWrapping(s) == RemoveChars(s, {"LRM", "LRE", "PDF"})

\* s starts with a right-to-left mark that no second one follows
StartsWithOneRlm(s) ==
    /\ Len(s) >= 1
    /\ s[1] = "RLM"
    /\ ~(Len(s) >= 2 /\ s[2] = "RLM")

HebrewWith42 == <<"ALEF", "ALEF", " ", "4", "2">>

Separators == {".", ","}

\* position i of s starts a maximal run: a digit with no digit before it and
\* no separator between it and a digit before it
RunStart(s, i) ==
    /\ s[i] \in Digits
    /\ ~(i > 1 /\ s[i - 1] \in Digits)
    /\ ~(i > 2 /\ s[i - 1] \in Separators /\ s[i - 2] \in Digits)

\* position i of s ends a maximal run
RunEnd(s, i) ==
    /\ s[i] \in Digits
    /\ ~(i < Len(s) /\ s[i + 1] \in Digits)
    /\ ~(i + 1 < Len(s) /\ s[i + 1] \in Separators /\ s[i + 2] \in Digits)

\* s from position i on with every maximal run wrapped
RECURSIVE RunsWrappedFrom(_, _)
RunsWrappedFrom(s, i) ==
    IF i > Len(s)
    THEN <<>>
    ELSE (IF RunStart(s, i) THEN <<"LRM", "LRE">> ELSE <<>>)
             \o <<s[i]>>
             \o (IF RunEnd(s, i) THEN <<"PDF", "LRM">> ELSE <<>>)
             \o RunsWrappedFrom(s, i + 1)

\* C12: after the right-to-left mark, if one was prepended, the output is the
\* NFC input with LRM LRE before the first digit and PDF LRM after the last
\* digit of every maximal run of digits with inner separators, and every
\* other character where it was
C12_DigitRunsWrappedOnce ==
    BidiApplied =>
        LET s == NFC(textInput)
            body == IF HasHebrew(s) THEN Tail(textOutput) ELSE textOutput
        IN  body = RunsWrappedFrom(s, 1)

\* 1,234.56 is wrapped as one run
C12_Witness ==
    /\ BidiApplied
    /\ textInput = <<"1", ",", "2", "3", "4", ".", "5", "6">>
    /\ textOutput = <<"LRM", "LRE", "1", ",", "2", "3", "4", ".", "5", "6", "PDF", "LRM">>

\* C13: for an input without a Hebrew character the output is the NFC input
C13_NoHebrewUnchanged ==
    BidiApplied /\ ~HasHebrew(NFC(textInput)) => textOutput = NFC(textInput)

NotInFilenames ==
    {"/", "\\", "#", "TAB", "ACUTE", "LRM", "RLM", "LRE", "RLE", "PDF", "LRO", "RLO"}

\* C14: the sanitized value has at most 120 characters, none of them a
\* slash, backslash, hash, bidi control or other control character but only
\* letters, digits, space, dot, underscore, hyphen, geresh and gershayim, and
\* no two spaces and no two underscores in a row; Invoice #2024/05 becomes
\* Invoice _2024_05
C14_SanitizedFilenameSafe ==
    SanitizeApplied =>
        /\ Len(textOutput) <= 120
        /\ \A i \in 1..Len(textOutput) :
              /\ textOutput[i] \notin NotInFilenames
              /\ textOutput[i] \in Range(LowerSeq) \cup Range(UpperSeq) \cup Range(DigitChars)
                     \cup {"ALEF", "E_ACUTE", " ", ".", "_", "-", "GERESH", "GERSHAYIM"}
        /\ \A i \in 1..(Len(textOutput) - 1) :
              textOutput[i] \in {" ", "_"} => textOutput[i + 1] # textOutput[i]
        /\ textInput = <<"I", "n", "v", "o", "i", "c", "e", " ", "#", "2", "0", "2", "4", "/", "0", "5">>
               => textOutput = <<"I", "n", "v", "o", "i", "c", "e", " ", "_", "2", "0", "2", "4", "_", "0", "5">>

\* a value of 124 characters with slashes has been cut to 120 characters
C14_Witness ==
    /\ SanitizeApplied
    /\ Len(textInput) > 120
    /\ \E i \in 1..Len(textInput) : textInput[i] = "/"
    /\ Len(textOutput) = 120

(***************************************************************************)
(* Properties of the filenames                                             *)
(***************************************************************************)
\* the row the batch is working on
CurrentRowNumber == chunkStart + chunkIdx + 1

MappedFieldNames == {mappings[j].fieldName : j \in 1..Len(mappings)}

\* C15: every placeholder of the filename of a generated document is
\* resolved in the order (a) the CSV column of that name, (c) Row_Number,
\* the 1-based row index, (d) Timestamp, the current timestamp with ':' and
\* '.' replaced by '-', (e) otherwise Unknown_<name>; a name of a PDF field
\* (b) that is no column is left to the field
C15_PlaceholderPriorityOrder ==
    pc = "save" =>
        \A k \in 1..Len(namingTemplate.placeholders) :
            LET placeholder == namingTemplate.placeholders[k]
                row == rows[CurrentRowNumber]
                value == DriverPlaceholderValue(placeholder, row, CurrentRowNumber,
                                                lastTimestamp)
            IN  IF placeholder \in DOMAIN row
                THEN value = row[placeholder]
                ELSE IF placeholder \in MappedFieldNames
                     THEN TRUE
                     ELSE IF placeholder = RowNumberName
                          THEN value = NumberToString(CurrentRowNumber)
                          ELSE IF placeholder = TimestampName
                               THEN value = TimestampString(lastTimestamp)
                               ELSE value = UnknownName \o placeholder

\* the name ends with .pdf in any mix of upper and lower case
HasPdfSuffix(name) ==
    /\ Len(name) >= 4
    /\ name[Len(name) - 3] = "."
    /\ name[Len(name) - 2] \in {"p", "P"}
    /\ name[Len(name) - 1] \in {"d", "D"}
    /\ name[Len(name)] \in {"f", "F"}

\* `name` is `base` if that has the suffix already, else `base` followed by
\* .pdf: the suffix is there, and it was appended only where it was missing
SuffixedOnce(base, name) ==
    /\ HasPdfSuffix(name)
    /\ name = (IF HasPdfSuffix(base) THEN base ELSE base \o <<".", "p", "d", "f">>)

\* the template handed to App with its placeholders substituted for sample
\* row k of the preview and for row k of a batch
PreviewBase(k) ==
    PreviewSubstitute(namingTemplate.template, namingTemplate.placeholders, 1,
                      Range(csvColumns), Range(pdfFields), rows[k], k - 1, lastTimestamp)

DriverBase(k) ==
    DriverSubstitute(namingTemplate.template, namingTemplate.placeholders, 1,
                     rows[k], k, lastTimestamp)

DocRowCustomer ==
    <<"d", "o", "c", "_", "{">> \o RowNumberName \o <<"}", "_", "{">> \o CustomerName \o <<"}">>

DocOneAcme ==
    <<"d", "o", "c", "_", "1", "_">> \o AcmeInc \o <<".", "p", "d", "f">>

\* C16: every preview filename shown, and the filename generation gives
\* every row for the template handed to App, is the substituted template
\* followed by .pdf if and only if it does not end with .pdf in any case
\* already, and so ends in .pdf; doc_{Row_Number}_{Customer} with customer
\* "Acme Inc." gives row 1 the name "doc_1_Acme Inc..pdf"
C16_ExactlyOnePdfSuffix ==
    /\ \A k \in 1..Len(previews) : SuffixedOnce(PreviewBase(k), previews[k])
    /\ namingTemplate.template # <<>> =>
          \A k \in 1..Len(rows) :
              SuffixedOnce(DriverBase(k),
                           DriverFilename(namingTemplate, rows[k], k, lastTimestamp))
    /\ (/\ namingTemplate.template = DocRowCustomer
        /\ Len(rows) > 0
        /\ rows[1][CustomerName] = AcmeInc) =>
          /\ DriverFilename(namingTemplate, rows[1], 1, lastTimestamp) = DocOneAcme
          /\ (Len(previews) > 0 /\ RowNumberName \notin Range(csvColumns)) => previews[1] = DocOneAcme

\* previews are shown for the template of the example, and for a template
\* that ends in .PDF, with a customer whose name ends in a dot
C16_Witness ==
    /\ currentStep = 3
    /\ Len(previews) > 0
    /\ rows[1][CustomerName] = AcmeInc
    /\ \/ namingTemplate.template = DocRowCustomer /\ previews[1] = DocOneAcme
       \/ /\ HasPdfSuffix(namingTemplate.template)
          /\ previews[1] = PreviewBase(1)
          /\ ~EndsWith(previews[1], DotPdf)

(***************************************************************************)
(* Properties of the naming step                                           *)
(***************************************************************************)
Balanced(tpl) == CountOf(tpl, "{") = CountOf(tpl, "}")

\* a "{", then at least one character that is no "}", then a "}"
HasPlaceholderToken(tpl) ==
    \E i, j \in 1..Len(tpl) :
        /\ tpl[i] = "{"
        /\ tpl[j] = "}"
        /\ j > i + 1
        /\ \A m \in (i + 1)..(j - 1) : tpl[m] # "}"

ValidTemplate(tpl) == Balanced(tpl) /\ HasPlaceholderToken(tpl)

MismatchedBracesReported ==
    \E k \in 1..Len(templateAnalysis.errors) :
        templateAnalysis.errors[k] = "Mismatched braces in template"

\* C17: on the naming step the template entered is reported valid if and
\* only if its braces balance and it has at least one placeholder; while it
\* is unbalanced the 'Mismatched braces' error is reported and no preview
\* filename is shown
C17_UnbalancedTemplateShowsNoPreviews ==
    currentStep = 3 =>
        /\ templateAnalysis.isValid <=> ValidTemplate(template)
        /\ ~Balanced(template) => (MismatchedBracesReported /\ previews = <<>>)

\* the names of a list in order of first appearance, every name once
RECURSIVE FirstAppearances(_)
FirstAppearances(names) ==
    IF names = <<>>
    THEN <<>>
    ELSE LET front == FirstAppearances(SubSeq(names, 1, Len(names) - 1))
             last == names[Len(names)]
         IN  IF \E k \in 1..Len(front) : front[k] = last THEN front ELSE Append(front, last)

\* C18 as stated: the placeholders list of the NamingTemplate is the tokens
\* of its template in order of first appearance, a name used several times
\* collapsed to a single entry
C18_PlaceholdersCollapsed ==
    namingTemplate.placeholders = FirstAppearances(PlaceholdersFrom(namingTemplate.template, 1))

\* the text with the first "{name}" taken out, for every name of the list in
\* turn
RECURSIVE WithoutTokens(_, _)
WithoutTokens(tpl, names) ==
    IF names = <<>>
    THEN tpl
    ELSE WithoutTokens(ReplaceFirst(tpl, <<"{">> \o Head(names) \o <<"}">>, <<>>), Tail(names))

\* C18: the placeholders list of the NamingTemplate is the tokens of its
\* template in order of appearance, a name used several times appearing
\* once for every use: taking one "{name}" out of the template for every
\* entry of the list leaves no token, and the list of a template handed over
\* is not empty
C18_PlaceholdersOnePerOccurrence ==
    /\ namingTemplate.placeholders = PlaceholdersFrom(namingTemplate.template, 1)
    /\ ~HasPlaceholderToken(WithoutTokens(namingTemplate.template, namingTemplate.placeholders))
    /\ namingTemplate.template # <<>> => Len(namingTemplate.placeholders) > 0

\* the template with the customer twice has been handed over: two entries,
\* and both uses are substituted in the preview
C18_Witness ==
    /\ currentStep = 3
    /\ namingTemplate.template = template
    /\ namingTemplate.placeholders = <<CustomerName, CustomerName>>
    /\ Len(previews) > 0
    /\ rows[1][CustomerName] = AcmeInc
    /\ previews[1] = AcmeInc \o <<"_">> \o AcmeInc \o DotPdf

\* C19: the wizard advances from the naming step to generation only with a
\* valid template entered, and generation gets the template entered
C19_InvalidTemplateBlocksGeneration ==
    [][(currentStep = 3 /\ currentStep' = 4) =>
          (ValidTemplate(template) /\ namingTemplate'.template = template)]_vars

(***************************************************************************)
(* Properties of the progress reports                                      *)
(***************************************************************************)
\* what the progress callback has reported last, while the batch runs
Reporting == progress.status = "processing"

\* C20: while a batch runs, the count reported is at most the number of
\* rows, rows 1 to that count are in the archive (so the count of all rows
\* is reported only once every row has been archived), the count never
\* decreases from one report to the next, and the report that follows the
\* rows of a chunk gives the number of rows archived
C20_ProgressCountsCompletedRows ==
    /\ [](Reporting =>
              /\ progress.current <= Len(rows)
              /\ progress.total = Len(rows)
              /\ 1..progress.current \subseteq RowsIn(zip)
              /\ progress.message.text # "")
    /\ [][/\ (Reporting /\ progress'.status = "processing") =>
                 progress'.current >= progress.current
          /\ (pc = "yield" /\ progress'.status = "processing") =>
                 progress'.current = Cardinality(DOMAIN zip')]_vars

\* every row of a batch of more than one chunk is archived and the count of
\* all rows has been reported
C20_Witness ==
    /\ Reporting
    /\ pc = "generateAsync"
    /\ Len(rows) > ChunkSize
    /\ progress.current = Len(rows)
    /\ RowsIn(zip) = 1..Len(rows)

(***************************************************************************)
(* Properties of the path from file processing to the overlay              *)
(***************************************************************************)
\* the point (X - cropX, Y - cropY) of the extracted field, in the space of
\* the crop box
Rebased(f, m) == [f EXCEPT !.x = f.x - m.cropX, !.y = f.y - m.cropY]

\* the page box moved to the origin: a space in which no offset is left to
\* subtract
AtOrigin(m) == [m EXCEPT !.cropX = 0, !.cropY = 0]

\* C22: the overlay of a field extracted at (X, Y) on a page whose crop box
\* has the offset (cropX, cropY) is the overlay of the point
\* (X - cropX, Y - cropY) in the crop box: from file processing to the
\* rendered overlay the offset is subtracted exactly once
C22_CropOffsetSubtractedOnce ==
    (PreviewReady /\ meta.rotation \in SupportedRotations) =>
        position = calculateFieldPosition(Rebased(extracted, meta), AtOrigin(meta),
                                          previewDimensions)

(***************************************************************************)
(* Properties of the filenames of a batch against the naming step          *)
(***************************************************************************)
\* the filename generateZipInBrowser computes for row k with the template
\* handed to App, before de-duplication
GeneratedFilename(k) == DriverFilename(namingTemplate, rows[k], k, lastTimestamp)

\* C23: the filename the generation driver computes for a row is the one
\* the naming step previews for that row: the same placeholder priority and
\* the same sanitization at preview time and at generation time
C23_DriverFollowsTemplateEngine ==
    currentStep = 3 => \A k \in 1..Len(previews) : GeneratedFilename(k) = previews[k]

Contains(s, pat) == \E i \in 1..Len(s) : StartsWithAt(s, i, pat)

Token(name) == <<"{">> \o name \o <<"}">>

\* no {Name} of a parsed placeholder is left in the filename
NoTokenLeft(filename) ==
    \A j \in 1..Len(namingTemplate.placeholders) :
        ~Contains(filename, Token(namingTemplate.placeholders[j]))

\* C26: in every preview filename and in every filename generation computes
\* for a row, every occurrence of every parsed {Name} token has been
\* replaced, also of a name the template uses several times
C26_EveryOccurrenceResolved ==
    /\ \A k \in 1..Len(previews) : NoTokenLeft(previews[k])
    /\ \A k \in 1..Len(rows) : NoTokenLeft(GeneratedFilename(k))

\* generation is reached with the customer twice in the template: both uses
\* are resolved in the generated name, here of a row with an empty customer
C26_Witness ==
    /\ currentStep = 4
    /\ namingTemplate.placeholders = <<CustomerName, CustomerName>>
    /\ Len(rows) > 0
    /\ rows[1][CustomerName] = <<>>
    /\ GeneratedFilename(1) = <<"_">> \o DotPdf

\* C27: on the generate step, reached with a template that passed
\* validation, the filename of every row has no '/', no '\' and no brace
C27_NoPathSeparatorInFilename ==
    currentStep = 4 =>
        \A k \in 1..Len(rows) :
            \A i \in 1..Len(GeneratedFilename(k)) :
                GeneratedFilename(k)[i] \notin {"/", "\\", "{", "}"}

(***************************************************************************)
(* Properties of the order of the rows in a batch                          *)
(***************************************************************************)
\* a row is in work: its load or its save is awaited
RowInWork == pc \in {"load", "save"}

\* C24: within a batch the rows are announced in index order, each once
\* (the k-th announcement is row k); while a row is in work it is the last
\* one announced and exactly the rows before it are archived, so no two rows
\* are in progress at once; the groups start at multiples of 5 and hold at
\* most 5 rows; the yield is taken only when every row of the group (5 rows,
\* or the rest of the batch) has been archived; a completed batch has
\* announced every row
C24_RowsInOrderOneAtATime ==
    /\ \A i \in 1..Len(rowLog) : rowLog[i] = i
    /\ Len(rowLog) <= Len(rows)
    /\ pc # "none" =>
          /\ chunkStart % 5 = 0
          /\ chunkIdx < 5
    /\ RowInWork =>
          /\ CurrentRowNumber = Len(rowLog)
          /\ RowsIn(zip) = 1..(CurrentRowNumber - 1)
          /\ Cardinality(DOMAIN zip) = CurrentRowNumber - 1
    /\ pc = "yield" =>
          /\ Len(rowLog) = Min(chunkStart + 5, Len(rows))
          /\ RowsIn(zip) = 1..Len(rowLog)
    /\ pc = "generateAsync" => Len(rowLog) = Len(rows)
    /\ progress.status = "completed" => Len(rowLog) = Len(rows)

\* the yield after the first group of a batch that has rows left
C24_Witness ==
    /\ pc = "yield"
    /\ chunkStart = 0
    /\ Len(rows) > 5
    /\ rowLog = <<1, 2, 3, 4, 5>>

(***************************************************************************)
(* Properties of concurrent batches                                        *)
(***************************************************************************)
\* the names a batch that runs alone gives to the first k rows of call c
RECURSIVE NamesAlone(_, _)
NamesAlone(c, k) ==
    IF k = 0
    THEN {}
    ELSE LET before == NamesAlone(c, k - 1)
         IN  before \cup {HandleDuplicates(
                              DriverFilename(c.namingTemplate, c.rows[k], k, 0), before)}

\* CallResumed does to the record of a call what the actions of the driver
\* do to the running call
CallResumedFollowsDriver ==
    [][(pc # "none" /\ pc' # "none" /\ RunningCall' # RunningCall)
           => RunningCall' = CallResumed(RunningCall, lastTimestamp')]_vars

\* the calls that are suspended at an await
LiveCalls == {c \in {RunningCall} \cup Range(orphans) : c.pc # "none"}

\* the rows of call c that have their name
Named(c) ==
    IF c.pc = "generateAsync" THEN Len(c.rows)
    ELSE IF c.pc = "load" THEN c.chunkStart + c.chunkIdx
    ELSE c.chunkStart + c.chunkIdx + 1

\* the rows of call c that are in its archive
Archived(c) == IF c.pc = "save" THEN Named(c) - 1 ELSE Named(c)

\* C25: the filename set and the archive belong to one batch: whatever other
\* batches are suspended, before or after a retry or a return to the
\* generate step, a batch that has its font holds exactly the names it would
\* have given to its rows running alone from an empty set, its archive
\* exactly the documents of its rows that were saved, and a downloaded
\* archive exactly the names of a batch that ran alone
C25_SetAndArchiveOwnedByOneBatch ==
    /\ \A c \in LiveCalls :
          c.pc # "fetch" =>
              /\ c.usedFilenames = NamesAlone(c, Named(c))
              /\ DOMAIN c.zip = NamesAlone(c, Archived(c))
              /\ {c.zip[f].row : f \in DOMAIN c.zip} = 1..Archived(c)
    /\ \A d \in 1..Len(downloads) :
          /\ DOMAIN downloads[d] = NamesAlone(RunningCall, Len(rows))
          /\ {downloads[d][f].row : f \in DOMAIN downloads[d]} = 1..Len(rows)

\* a batch started after a return to the generate step is about to archive
\* a name that the set of the suspended earlier batch holds already
C25_Witness ==
    /\ pc = "save"
    /\ \E i \in 1..Len(orphans) :
          /\ orphans[i].pc \in {"save", "yield", "load"}
          /\ uniqueFilename \in orphans[i].usedFilenames

(***************************************************************************)
(* Properties of the wizard and of ResumeJobModal                          *)
(***************************************************************************)
MappedFieldIds(ms) == {ms[j].fieldId : j \in 1..Len(ms)}

\* the entry of the list for a field
MappingOf(ms, fieldId) == CHOOSE m \in Range(ms) : m.fieldId = fieldId

\* ms2 is ms with the entries of the fields in `kept` as they were
KeepsMappings(ms, ms2, kept) ==
    \A fieldId \in kept : MappingOf(ms2, fieldId) = MappingOf(ms, fieldId)

\* C21: the mapping list never holds two entries of one fieldId, and every
\* change of the list in MappingStep is either the removal of the entry of
\* one field, the others staying, or puts one entry for one field in the
\* list, instead of the entry the field had if it had one, the others staying
C21_OneMappingPerField ==
    /\ [](\A i, j \in 1..Len(mappings) : mappings[i].fieldId = mappings[j].fieldId => i = j)
    /\ [][(~showResumeModal /\ mappings' # mappings) =>
            \/ \E fieldId \in MappedFieldIds(mappings) :
                  /\ MappedFieldIds(mappings') = MappedFieldIds(mappings) \ {fieldId}
                  /\ KeepsMappings(mappings, mappings', MappedFieldIds(mappings'))
            \/ \E fieldId \in MappedFieldIds(mappings') :
                  /\ MappedFieldIds(mappings') = MappedFieldIds(mappings) \cup {fieldId}
                  /\ Len(mappings') = Cardinality(MappedFieldIds(mappings'))
                  /\ KeepsMappings(mappings, mappings', MappedFieldIds(mappings) \ {fieldId})]_vars

\* two fields are mapped to one column, the first of them after it had been
\* mapped to another column
C21_Witness ==
    /\ currentStep = 2
    /\ Len(mappings) = 2
    /\ mappings[1].fieldId = 1
    /\ mappings[2].fieldId = 0
    /\ mappings[1].columnId = mappings[2].columnId

\* C28: the Resume button works only while the PDF and the CSV that are
\* selected in the dialog agree with the stored job in name, size,
\* modification time and checksum
C28_ResumeOnlyWithMatchingFiles ==
    (showResumeModal /\ canResume /\ modalPdfFile # NoFile /\ modalCsvFile # NoFile) =>
        /\ filesMatch(modalPdfFile, incompleteJobData.pdfFile)
        /\ computeFileChecksum(modalPdfFile) = incompleteJobData.pdfChecksum
        /\ filesMatch(modalCsvFile, incompleteJobData.csvFile)
        /\ computeFileChecksum(modalCsvFile) = incompleteJobData.csvChecksum

\* C29: every mapping names a field of the loaded PDF and a column of the
\* loaded CSV, by id and by name
C29_MappingsReferToLoadedFiles ==
    \A j \in 1..Len(mappings) :
        /\ mappings[j].fieldId + 1 \in 1..Len(pdfFields)
        /\ pdfFields[mappings[j].fieldId + 1] = mappings[j].fieldName
        /\ mappings[j].columnId + 1 \in 1..Len(csvColumns)
        /\ csvColumns[mappings[j].columnId + 1] = mappings[j].columnName

\* C30: the current step is one of the four and it is the one active step
C30_CurrentStepIsTheActiveStep ==
    /\ currentStep \in 1..4
    /\ \A id \in 1..4 : steps[id].active <=> id = currentStep

====
